---- MODULE Spec2Model ----
(***************************************************************************)
(* The blackjack round engine of blackjack-core: Table::progress over the  *)
(* GameState enumeration, with the card/value model, the player and dealer *)
(* hands, the turn manager and the shoe it draws from.                     *)
(***************************************************************************)
EXTENDS Integers, Sequences, FiniteSets, TLC

(***************************************************************************)
(* Bounds of the exploration.                                              *)
(***************************************************************************)
\* How many of the ordinals of SampleOrdinals the random sampler is
\* allowed to return.
NumSampled == 3
\* The number of rounds that may be started on one table.
MaxRounds == 1
\* The number of decks the shoe is built with (Shoe::new's first argument).
Decks == 3
\* The chips the table starts with.
StartChips == 12

\* The ordinals the sampler may return, in the order the bound admits them:
\* the ace, the ten, the eight, the two, the six, the nine and the five of
\* clubs.  A shoe of Decks decks holds Decks cards of each.
SampleOrdinals == <<48, 32, 24, 0, 16, 28, 12>>

Sampled == {SampleOrdinals[i] : i \in 1..(IF NumSampled < Len(SampleOrdinals) THEN NumSampled ELSE Len(SampleOrdinals))}

(***************************************************************************)
(* Program constants.                                                      *)
(***************************************************************************)
CardsPerDeck == 52

Ordinals == 0..(CardsPerDeck - 1)

Suits == <<"Clubs", "Diamonds", "Hearts", "Spades">>

Ranks == <<"Two", "Three", "Four", "Five", "Six", "Seven", "Eight", "Nine", "Ten", "Jack", "Queen", "King", "Ace">>

\* Rank::worth
worth(rank) ==
    CASE rank = "Two" -> 2
      [] rank = "Three" -> 3
      [] rank = "Four" -> 4
      [] rank = "Five" -> 5
      [] rank = "Six" -> 6
      [] rank = "Seven" -> 7
      [] rank = "Eight" -> 8
      [] rank = "Nine" -> 9
      [] rank \in {"Ten", "Jack", "Queen", "King"} -> 10
      [] rank = "Ace" -> 11

\* A faulty Card::from_ordinal: the ordinals run through the suits first
from_ordinal_suit_major(ordinal) ==
    [rank |-> Ranks[(ordinal % 13) + 1], suit |-> Suits[(ordinal \div 13) + 1]]

\* Card::from_ordinal
from_ordinal(ordinal) ==
    [rank |-> Ranks[(ordinal \div 4) + 1], suit |-> Suits[(ordinal % 4) + 1]]

(***************************************************************************)
(* Value                                                                   *)
(***************************************************************************)
\* Value::from(&Card)
ValueFrom(card) == [soft |-> card.rank = "Ace", total |-> worth(card.rank)]

\* A faulty second half of Value::add_assign: the soft ace of self is kept
\* at 11 whatever the sum
AddWorth_keeps_ace(self, soft, amount) ==
    [soft |-> self.soft \/ soft, total |-> self.total + amount]

\* The second half of Value::add_assign, `soft` and `amount` being the right
\* hand side as the first half left it: the soft ace of self is made hard
\* when the sum would bust, and the two are added
AddWorth(self, soft, amount) ==
    IF self.soft /\ self.total + amount > 21
    THEN [soft |-> FALSE \/ soft, total |-> (self.total - 10) + amount]
    ELSE [soft |-> self.soft \/ soft, total |-> self.total + amount]

\* A faulty Value::add_assign: the ace that is added counts 1 whatever the sum
ValueAddAssign_hard_ace(self, rhs) ==
    IF rhs.soft
    THEN AddWorth(self, FALSE, rhs.total - 10)
    ELSE AddWorth(self, rhs.soft, rhs.total)

\* Value::add_assign: self += rhs
ValueAddAssign(self, rhs) ==
    IF rhs.soft /\ self.total + rhs.total > 21
    THEN AddWorth(self, FALSE, rhs.total - 10)
    ELSE AddWorth(self, rhs.soft, rhs.total)

(***************************************************************************)
(* Status and hands                                                        *)
(***************************************************************************)
Terminal == {"Stood", "Bust", "Blackjack", "Surrendered"}

\* DealerHand::new
DealerHandNew(card, soft_17_action) ==
    [value |-> ValueFrom(card), status |-> "InPlay", cards |-> <<card>>,
     soft_17_action |-> soft_17_action]

\* DealerHand::hits_on_soft_17
hits_on_soft_17(hand) == hand.soft_17_action = "Hit"

\* DealerHand::showing
showing(hand) == worth(hand.cards[1].rank)

\* A faulty DealerHand::add_assign: the dealer stands on every 17
DealerStatus_stands_on_17(value, ncards, hits17) ==
    CASE value.soft /\ value.total = 21 /\ ncards = 2 -> "Blackjack"
      [] value.total >= 17 /\ value.total <= 21 -> "Stood"
      [] value.total >= 22 -> "Bust"
      [] OTHER -> "InPlay"

\* The status match of DealerHand::add_assign
DealerStatus(value, ncards, hits17) ==
    CASE value.soft /\ value.total = 17 /\ hits17 -> "InPlay"
      [] value.soft /\ value.total = 21 /\ ncards = 2 -> "Blackjack"
      [] value.total >= 17 /\ value.total <= 21 -> "Stood"
      [] value.total >= 22 -> "Bust"
      [] OTHER -> "InPlay"

\* The end of DealerHand::add_assign: the status is set from the new value
DealerSettle(hand) ==
    [hand EXCEPT !.status = DealerStatus(hand.value, Len(hand.cards), hits_on_soft_17(hand))]

\* DealerHand::add_assign
DealerAddAssign(hand, card) ==
    DealerSettle([hand EXCEPT !.value = ValueAddAssign(@, ValueFrom(card)),
                              !.cards = Append(@, card)])

\* PlayerHand::new
PlayerHandNew(card, bet) ==
    [bet |-> bet, value |-> ValueFrom(card), status |-> "InPlay", cards |-> <<card>>]

\* PlayerHand::size
size(hand) == Len(hand.cards)

\* PlayerHand::is_pair
is_pair(hand) == size(hand) = 2 /\ hand.cards[1].rank = hand.cards[2].rank

\* A faulty status match: a hand of 21 is stood on whatever its size
PlayerStatus_no_blackjack(total, ncards) ==
    CASE total >= 22 -> "Bust"
      [] total = 21 -> "Stood"
      [] OTHER -> "InPlay"

\* The status match of PlayerHand::add_assign
PlayerStatus(total, ncards) ==
    CASE total >= 22 -> "Bust"
      [] total = 21 /\ ncards = 2 -> "Blackjack"
      [] total = 21 -> "Stood"
      [] OTHER -> "InPlay"

\* The end of PlayerHand::add_assign: the status is set from the new value
PlayerSettle(hand) ==
    [hand EXCEPT !.status = PlayerStatus(hand.value.total, Len(hand.cards))]

\* PlayerHand::add_assign
PlayerAddAssign(hand, card) ==
    PlayerSettle([hand EXCEPT !.value = ValueAddAssign(@, ValueFrom(card)),
                              !.cards = Append(@, card)])

\* PlayerHand::stand
HandStand(hand) == [hand EXCEPT !.status = "Stood"]

\* The end of PlayerHand::double: a hand still in play is stood on
StandIfInPlay(hand) ==
    IF hand.status = "InPlay" THEN [hand EXCEPT !.status = "Stood"] ELSE hand

\* A faulty PlayerHand::double: the hand is not stood on after the card
HandDouble_left_in_play(hand, card) == PlayerAddAssign([hand EXCEPT !.bet = hand.bet * 2], card)

\* PlayerHand::double
HandDouble(hand, card) ==
    StandIfInPlay(PlayerAddAssign([hand EXCEPT !.bet = hand.bet * 2], card))

\* A faulty PlayerHand::split: the value of the pair is left on the hand
HandSplitKept_stale_value(hand) ==
    [hand EXCEPT !.cards = SubSeq(hand.cards, 1, Len(hand.cards) - 1)]

\* PlayerHand::split: the hand that stays, and the new hand
HandSplitKept(hand) ==
    LET cards == SubSeq(hand.cards, 1, Len(hand.cards) - 1)
    IN  [hand EXCEPT !.cards = cards, !.value = ValueFrom(cards[1])]

\* A faulty split: the new hand carries no bet
HandSplitNew_unstaked(hand) == PlayerHandNew(hand.cards[Len(hand.cards)], 0)

HandSplitNew(hand) == PlayerHandNew(hand.cards[Len(hand.cards)], hand.bet)

\* PlayerHand::surrender
HandSurrender(hand) == [hand EXCEPT !.status = "Surrendered"]

\* The debug assertions of the hand operations
AddAssignAsserts(hand) == hand.status = "InPlay"

StandAsserts(hand) == hand.status = "InPlay"

DoubleAsserts(hand) == size(hand) = 2 /\ hand.status = "InPlay"

SplitAsserts(hand) == is_pair(hand)

SurrenderAsserts(hand) == size(hand) = 2

(***************************************************************************)
(* Payout calculator                                                       *)
(***************************************************************************)
\* PlayerHand::payout_blackjack
payout_blackjack(hand, payout) ==
    IF payout = "ThreeToTwo" THEN hand.bet + (hand.bet * 3) \div 2
    ELSE hand.bet + (hand.bet * 6) \div 5

\* A faulty payout_win: the bet is returned without the winnings
payout_win_bet_only(hand) == hand.bet

\* PlayerHand::payout_win
payout_win(hand) == hand.bet * 2

\* PlayerHand::payout_push
payout_push(hand) == hand.bet

\* PlayerHand::payout_surrender
payout_surrender(hand) == hand.bet \div 2

\* PlayerHand::payout_loss
payout_loss(hand) == 0

\* A faulty PlayerHand::calculate_winnings: a dealer who went bust pays every
\* hand that is neither surrendered nor a Blackjack, a bust hand included
HandWinnings_dealer_bust_first(hand, dealer_hand, blackjack_payout) ==
    CASE hand.status = "Surrendered" -> payout_surrender(hand)
      [] hand.status = "Blackjack" /\ dealer_hand.status = "Blackjack" -> payout_push(hand)
      [] hand.status = "Blackjack" -> payout_blackjack(hand, blackjack_payout)
      [] dealer_hand.status = "Bust" -> payout_win(hand)
      [] dealer_hand.status = "Blackjack" \/ hand.status = "Bust" -> payout_loss(hand)
      [] OTHER -> IF hand.value.total > dealer_hand.value.total THEN payout_win(hand)
                  ELSE IF hand.value.total = dealer_hand.value.total THEN payout_push(hand)
                  ELSE payout_loss(hand)

\* PlayerHand::calculate_winnings
HandWinnings(hand, dealer_hand, blackjack_payout) ==
    CASE hand.status = "Surrendered" -> payout_surrender(hand)
      [] hand.status = "Blackjack" /\ dealer_hand.status = "Blackjack" -> payout_push(hand)
      [] hand.status = "Blackjack" -> payout_blackjack(hand, blackjack_payout)
      [] dealer_hand.status = "Blackjack" \/ hand.status = "Bust" -> payout_loss(hand)
      [] dealer_hand.status = "Bust" -> payout_win(hand)
      [] OTHER -> IF hand.value.total > dealer_hand.value.total THEN payout_win(hand)
                  ELSE IF hand.value.total = dealer_hand.value.total THEN payout_push(hand)
                  ELSE payout_loss(hand)

RECURSIVE SumSeq(_)
\* Iterator::sum over a vector of numbers
SumSeq(xs) == IF xs = <<>> THEN 0 ELSE xs[1] + SumSeq(Tail(xs))

(***************************************************************************)
(* Turn manager                                                            *)
(***************************************************************************)
\* From<PlayerHand> for PendingTurn
PendingFromHand(hand) == [hand |-> hand, insurance_bet |-> 0]

\* From<PendingTurn> for ActiveTurn
ActiveFromPending(turn) ==
    [hands |-> <<turn.hand>>, current_hand_index |-> 0, insurance_bet |-> turn.insurance_bet]

\* From<PendingTurn> for FinishedTurn
FinishedFromPending(turn) == [hands |-> <<turn.hand>>, insurance_bet |-> turn.insurance_bet]

\* ActiveTurn::current_hand
current_hand(turn) == turn.hands[turn.current_hand_index + 1]

\* A faulty ActiveTurn::current_hand_mut: the first hand of the turn is
\* handed out whichever is the current one
SetCurrentHand_first(turn, hand) ==
    [turn EXCEPT !.hands = [turn.hands EXCEPT ![1] = hand]]

\* ActiveTurn::current_hand_mut, followed by the assignment of `hand`
SetCurrentHand(turn, hand) ==
    [turn EXCEPT !.hands = [turn.hands EXCEPT ![turn.current_hand_index + 1] = hand]]

\* ActiveTurn::hands (the count, a u8)
hands(turn) == Len(turn.hands) % 256

\* ActiveTurn::defer
defer(turn, hand) == [turn EXCEPT !.hands = Append(turn.hands, hand)]

\* The greatest of a set of numbers, where the least is due
Min_greatest(S) == CHOOSE i \in S : \A j \in S : i >= j

\* The least of a set of numbers
Min(S) == CHOOSE i \in S : \A j \in S : i <= j

\* The indices (0-based) at or after the current one whose hand is InPlay
InPlayFrom(turn) ==
    {i \in turn.current_hand_index..(Len(turn.hands) - 1) : turn.hands[i + 1].status = "InPlay"}

\* ActiveTurn::continue_playing: Ok(turn) with the index moved to the first
\* hand still in play, or Err(finished turn) when there is none
continue_playing(turn) ==
    IF \E i \in turn.current_hand_index..(Len(turn.hands) - 1) : turn.hands[i + 1].status = "InPlay"
    THEN [ok |-> TRUE,
          turn |-> [turn EXCEPT !.current_hand_index = Min(InPlayFrom(turn))],
          finished |-> [hands |-> <<>>, insurance_bet |-> 0]]
    ELSE [ok |-> FALSE,
          turn |-> turn,
          finished |-> [hands |-> turn.hands, insurance_bet |-> turn.insurance_bet]]

\* FinishedTurn::total_bet
total_bet(turn) ==
    SumSeq([i \in 1..Len(turn.hands) |-> turn.hands[i].bet]) + turn.insurance_bet

\* A faulty FinishedTurn::calculate_winnings: the insurance is paid whatever
\* the dealer holds
calculate_winnings_always_insured(turn, dealer_hand, blackjack_payout) ==
    turn.insurance_bet * 2
    + SumSeq([i \in 1..Len(turn.hands) |->
                HandWinnings(turn.hands[i], dealer_hand, blackjack_payout)])

\* FinishedTurn::calculate_winnings
calculate_winnings(turn, dealer_hand, blackjack_payout) ==
    LET insurance_winnings ==
            IF dealer_hand.status = "Blackjack" THEN turn.insurance_bet * 2 ELSE 0
    IN  insurance_winnings
        + SumSeq([i \in 1..Len(turn.hands) |->
                    HandWinnings(turn.hands[i], dealer_hand, blackjack_payout)])

(***************************************************************************)
(* Shoe                                                                    *)
(***************************************************************************)
\* WeightedTreeIndex::new([decks; 52])
FullDist(decks) == [o \in Ordinals |-> decks]

\* Shoe::new; the shuffle threshold is the fraction num/den.  trace and
\* sampled are not fields of the code: trace lists the ordinals sampled during
\* the current call of progress, so that two runs can be told to have drawn
\* the same cards, and sampled is the set of ordinals the sampler is followed
\* on.
ShoeNew(decks, num, den) ==
    [decks |-> decks, cards_drawn |-> 0, max_penetration |-> [num |-> num, den |-> den],
     dist |-> FullDist(decks), trace |-> <<>>, sampled |-> Sampled]

\* A faulty shuffle: the count of the cards drawn is kept
ShoeShuffle_counting_on(shoe) == [shoe EXCEPT !.dist = FullDist(shoe.decks)]

\* Shoe::shuffle
ShoeShuffle(shoe) == [shoe EXCEPT !.cards_drawn = 0, !.dist = FullDist(shoe.decks)]

\* A faulty needs_shuffle: a penetration that is reached is not enough
needs_shuffle_above(shoe) ==
    shoe.cards_drawn * shoe.max_penetration.den
        > shoe.max_penetration.num * (shoe.decks * CardsPerDeck)

\* Shoe::needs_shuffle: cards_drawn / (decks * 52) >= max_penetration
needs_shuffle(shoe) ==
    shoe.cards_drawn * shoe.max_penetration.den
        >= shoe.max_penetration.num * (shoe.decks * CardsPerDeck)

\* self.dist.update(ordinal, new_weight).is_err(): WeightedTreeIndex is not
\* among the files of the repository; the update is taken to fail as
\* draw_card expects it to, when it leaves no weight above zero
UpdateFails(dist, ordinal, new_weight) ==
    new_weight = 0 /\ \A o \in Ordinals \ {ordinal} : dist[o] = 0

\* A faulty draw_card: the shoe is shuffled when the last copy of a card is
\* drawn, cards of other ranks being left or not
ShoeAfterDraw_early(shoe, ordinal) ==
    LET counted == [shoe EXCEPT !.cards_drawn = shoe.cards_drawn + 1,
                                !.trace = Append(shoe.trace, ordinal)]
        new_weight == shoe.dist[ordinal] - 1
    IN  IF new_weight = 0 THEN ShoeShuffle(counted)
        ELSE [counted EXCEPT !.dist = [shoe.dist EXCEPT ![ordinal] = new_weight]]

\* A faulty draw_card: the weight of the card drawn is left as it was
ShoeAfterDraw_replacing(shoe, ordinal) ==
    [shoe EXCEPT !.cards_drawn = shoe.cards_drawn + 1, !.trace = Append(shoe.trace, ordinal)]

\* The shoe after draw_card sampled `ordinal`: the count goes up, the weight
\* down, and the shoe is shuffled when the update of the weights fails, which
\* the code takes to mean that the last card was drawn
ShoeAfterDraw(shoe, ordinal) ==
    LET counted == [shoe EXCEPT !.cards_drawn = shoe.cards_drawn + 1,
                                !.trace = Append(shoe.trace, ordinal)]
        new_weight == shoe.dist[ordinal] - 1
    IN  IF UpdateFails(shoe.dist, ordinal, new_weight) THEN ShoeShuffle(counted)
        ELSE [counted EXCEPT !.dist = [shoe.dist EXCEPT ![ordinal] = new_weight]]

\* The ordinals the weighted sampler can return
Samplable(shoe) == {o \in shoe.sampled : shoe.dist[o] > 0}

\* Shoe::draw_card: every (card, shoe afterwards) the call can produce
draw_card(shoe) ==
    {[card |-> from_ordinal(o), shoe |-> ShoeAfterDraw(shoe, o)] : o \in Samplable(shoe)}

(***************************************************************************)
(* Statistics                                                              *)
(***************************************************************************)
\* Statistics::new
StatisticsNew ==
    [turns_played |-> 0, hands_played |-> 0, total_bet |-> 0, total_won |-> 0,
     wins |-> 0, pushes |-> 0, losses |-> 0, blackjacks |-> 0, busts |-> 0,
     dealer_blackjacks |-> 0, dealer_busts |-> 0]

RECURSIVE FlatHands(_)
\* The hands of the finished turns, in order
FlatHands(turns) == IF turns = <<>> THEN <<>> ELSE turns[1].hands \o FlatHands(Tail(turns))

\* The loop of Statistics::update over the hands `hs`, `won` being the
\* winnings of each
Tally(st, hs, won, dealer_status) ==
    [turns_played |-> st.turns_played + 1,
     hands_played |-> st.hands_played + Len(hs),
     total_bet |-> st.total_bet + SumSeq([i \in 1..Len(hs) |-> hs[i].bet]),
     total_won |-> st.total_won + SumSeq(won),
     wins |-> st.wins + Cardinality({i \in 1..Len(hs) : won[i] > hs[i].bet}),
     pushes |-> st.pushes + Cardinality({i \in 1..Len(hs) : won[i] = hs[i].bet}),
     losses |-> st.losses + Cardinality({i \in 1..Len(hs) : won[i] < hs[i].bet}),
     blackjacks |-> st.blackjacks + Cardinality({i \in 1..Len(hs) : hs[i].status = "Blackjack"}),
     busts |-> st.busts + Cardinality({i \in 1..Len(hs) : hs[i].status = "Bust"}),
     dealer_blackjacks |-> st.dealer_blackjacks + (IF dealer_status = "Blackjack" THEN 1 ELSE 0),
     dealer_busts |-> st.dealer_busts + (IF dealer_status = "Bust" THEN 1 ELSE 0)]

\* The winnings of each hand of `hs`
WinningsOf(hs, dealer_hand, blackjack_payout) ==
    [i \in 1..Len(hs) |-> HandWinnings(hs[i], dealer_hand, blackjack_payout)]

\* Statistics::update over the hands `hs`, the winnings of a hand being those
\* it is paid
UpdateOver(st, hs, dealer_hand, blackjack_payout) ==
    Tally(st, hs, WinningsOf(hs, dealer_hand, blackjack_payout), dealer_hand.status)

\* Statistics::update, called with the hands of all finished turns
StatisticsUpdate(st, finished_turns, dealer_hand, blackjack_payout) ==
    UpdateOver(st, FlatHands(finished_turns), dealer_hand, blackjack_payout)

(***************************************************************************)
(* Rules, inputs, errors                                                   *)
(***************************************************************************)
\* Option<u32> / Option<u8>
None == [some |-> FALSE, v |-> 0]

Some(x) == [some |-> TRUE, v |-> x]

\* Rules::default
RulesDefault ==
    [max_bet |-> None, min_bet |-> Some(100), blackjack_payout |-> "ThreeToTwo",
     dealer_soft_17 |-> "Stand", insurance |-> FALSE, early_surrender |-> FALSE,
     late_surrender |-> TRUE, max_splits |-> Some(5), double_after_split |-> TRUE,
     split_aces |-> TRUE]

\* Input, and the absence of one (Option<Input>)
NoInput == [kind |-> "None", bet |-> 0, choice |-> FALSE, action |-> "None"]

Bet(b) == [kind |-> "Bet", bet |-> b, choice |-> FALSE, action |-> "None"]

Choice(c) == [kind |-> "Choice", bet |-> 0, choice |-> c, action |-> "None"]

Action(a) == [kind |-> "Action", bet |-> 0, choice |-> FALSE, action |-> a]

\* HandAction
HandActions == {"Stand", "Hit", "Double", "Split", "Surrender"}

(***************************************************************************)
(* GameState                                                               *)
(***************************************************************************)
NoHand == [bet |-> 0, value |-> [soft |-> FALSE, total |-> 0], status |-> "None", cards |-> <<>>]

NoDealer == [value |-> [soft |-> FALSE, total |-> 0], status |-> "None", cards |-> <<>>,
             soft_17_action |-> "None"]

NoTurn == [hands |-> <<>>, current_hand_index |-> 0, insurance_bet |-> 0]

\* The fields of all variants; a variant leaves the fields it lacks empty
Betting ==
    [tag |-> "Betting", bets |-> <<>>, player_turns |-> <<>>, pending_turns |-> <<>>,
     current_turn |-> NoTurn, new_hand |-> NoHand, finished_turns |-> <<>>,
     dealer_hand |-> NoDealer, total_bets |-> <<>>, winnings |-> <<>>]

Shuffle == [Betting EXCEPT !.tag = "Shuffle"]

DealFirstPlayerCards(bets, player_turns) ==
    [Betting EXCEPT !.tag = "DealFirstPlayerCards", !.bets = bets, !.player_turns = player_turns]

DealFirstDealerCard(player_turns) ==
    [Betting EXCEPT !.tag = "DealFirstDealerCard", !.player_turns = player_turns]

\* DealSecondPlayerCards, DealHoleCard, OfferEarlySurrender, OfferInsurance,
\* CheckDealerHoleCard: { player_turns, dealer_hand }
Dealing(tag, player_turns, dealer_hand) ==
    [Betting EXCEPT !.tag = tag, !.player_turns = player_turns, !.dealer_hand = dealer_hand]

\* PlayPlayerTurn, PlayerStand, PlayerHit, PlayerDouble, PlayerSplit,
\* PlayerSurrender: { pending_turns, current_turn, finished_turns, dealer_hand }
Playing(tag, pending_turns, current_turn, finished_turns, dealer_hand) ==
    [Betting EXCEPT !.tag = tag, !.pending_turns = pending_turns, !.current_turn = current_turn,
                    !.finished_turns = finished_turns, !.dealer_hand = dealer_hand]

\* DealFirstSplitCard, DealSecondSplitCard: the same with new_hand
Splitting(tag, pending_turns, current_turn, new_hand, finished_turns, dealer_hand) ==
    [Playing(tag, pending_turns, current_turn, finished_turns, dealer_hand)
        EXCEPT !.new_hand = new_hand]

\* RevealHoleCard, PlayDealerTurn, RoundOver: { finished_turns, dealer_hand }
Ending(tag, finished_turns, dealer_hand) ==
    [Betting EXCEPT !.tag = tag, !.finished_turns = finished_turns, !.dealer_hand = dealer_hand]

Payout(total_bets, winnings) ==
    [Betting EXCEPT !.tag = "Payout", !.total_bets = total_bets, !.winnings = winnings]

\* The states in which progress reads its input
InputTags == {"Betting", "OfferEarlySurrender", "OfferInsurance", "PlayPlayerTurn"}

\* The kind of input each of them reads
Accepts(tag) ==
    CASE tag = "Betting" -> "Bet"
      [] tag = "OfferEarlySurrender" -> "Choice"
      [] tag = "OfferInsurance" -> "Bet"
      [] tag = "PlayPlayerTurn" -> "Action"
      [] OTHER -> "None"

(***************************************************************************)
(* Table                                                                   *)
(***************************************************************************)
\* Table::new, with the chips that Table::bet reads and the mode the caller
\* sets; debug_assertions is the build (debug_assert! aborts only when set);
\* violation remembers the first assertion that did not hold
TableNew(chips, shoe, rules, fast_forward, debug_assertions) ==
    [shoe |-> shoe, rules |-> rules, statistics |-> StatisticsNew,
     fast_forward |-> fast_forward, chips |-> chips,
     debug_assertions |-> debug_assertions, violation |-> "None"]

\* What a transition function hands back: the table as it left it and the
\* next state, or the panic it ended in
Out(t, s) == [t |-> t, s |-> s, panic |-> FALSE, err |-> "None"]

\* Err((state, error))
ErrOut(t, s, e) == [t |-> t, s |-> s, panic |-> FALSE, err |-> e]

Panicked(t) == [t |-> t, s |-> Betting, panic |-> TRUE, err |-> "None"]

Violate(t, kind) == [t EXCEPT !.violation = IF @ = "None" THEN kind ELSE @]

\* debug_assert!(ok) before the rest of a function, `rest`: when it does not
\* hold a debug build panics and a release build carries on
DebugAssert(t, ok, kind, rest(_)) ==
    IF ~ok /\ t.debug_assertions THEN {Panicked(Violate(t, kind))}
    ELSE rest(IF ok THEN t ELSE Violate(t, kind))

\* A faulty wrong_input: the error carries the state a round starts in, not
\* the state the call was given
wrong_input_reset(t, s) == {ErrOut(t, Betting, "WrongInput")}

\* Err((state, Error::WrongInput)), `s` being the state progress rebuilds
\* from the fields it took apart
wrong_input(t, s) == {ErrOut(t, s, "WrongInput")}

\* A faulty check_double_allowed: the double-after-split rule is not read
check_double_allowed_any_turn(t, player_turn) ==
    IF size(current_hand(player_turn)) # 2 THEN "NotTwoCards" ELSE "Ok"

\* Table::check_double_allowed
check_double_allowed(t, player_turn) ==
    IF size(current_hand(player_turn)) # 2 THEN "NotTwoCards"
    ELSE IF hands(player_turn) > 1 /\ ~t.rules.double_after_split THEN "DoubleAfterSplitNotAllowed"
    ELSE "Ok"

\* A faulty check_split_allowed: the aces are looked at before the pair
check_split_allowed_aces_first(t, player_turn) ==
    IF current_hand(player_turn).value.soft /\ ~t.rules.split_aces THEN "SplitAcesNotAllowed"
    ELSE IF ~is_pair(current_hand(player_turn)) THEN "NotAPair"
    ELSE IF t.rules.max_splits.some /\ hands(player_turn) > t.rules.max_splits.v THEN "MaxSplitsReached"
    ELSE "Ok"

\* A faulty check_split_allowed: the hands are compared with >= for >
check_split_allowed_off_by_one(t, player_turn) ==
    IF ~is_pair(current_hand(player_turn)) THEN "NotAPair"
    ELSE IF current_hand(player_turn).value.soft /\ ~t.rules.split_aces THEN "SplitAcesNotAllowed"
    ELSE IF t.rules.max_splits.some /\ hands(player_turn) >= t.rules.max_splits.v THEN "MaxSplitsReached"
    ELSE "Ok"

\* Table::check_split_allowed
check_split_allowed(t, player_turn) ==
    IF ~is_pair(current_hand(player_turn)) THEN "NotAPair"
    ELSE IF current_hand(player_turn).value.soft /\ ~t.rules.split_aces THEN "SplitAcesNotAllowed"
    ELSE IF t.rules.max_splits.some /\ hands(player_turn) > t.rules.max_splits.v THEN "MaxSplitsReached"
    ELSE "Ok"

\* A faulty check_surrender_allowed: the size of the hand is not read
check_surrender_allowed_any_size(t, hand) ==
    IF ~t.rules.late_surrender THEN "LateSurrenderNotAllowed" ELSE "Ok"

\* A faulty check_surrender_allowed: the late-surrender rule is not read
check_surrender_allowed_any_rule(t, hand) ==
    IF size(hand) # 2 THEN "NotTwoCards" ELSE "Ok"

\* Table::check_surrender_allowed
check_surrender_allowed(t, hand) ==
    IF size(hand) # 2 THEN "NotTwoCards"
    ELSE IF ~t.rules.late_surrender THEN "LateSurrenderNotAllowed"
    ELSE "Ok"

(***************************************************************************)
(* The transition functions of Table, last state of the round first.  Each *)
(* yields the set of outcomes its draws allow.                             *)
(***************************************************************************)
\* Table::shuffle_dispenser
shuffle_dispenser(t) == {Out([t EXCEPT !.shoe = ShoeShuffle(t.shoe)], Betting)}

\* A faulty pay_out_winnings: a fast-forwarding table goes back to Betting
\* without the shuffle that is due
pay_out_winnings_unshuffled(t, winnings) ==
    IF needs_shuffle(t.shoe) /\ ~t.fast_forward THEN {Out(t, Shuffle)} ELSE {Out(t, Betting)}

\* Table::pay_out_winnings
pay_out_winnings(t, winnings) ==
    IF needs_shuffle(t.shoe)
    THEN IF t.fast_forward THEN shuffle_dispenser(t) ELSE {Out(t, Shuffle)}
    ELSE {Out(t, Betting)}

\* A faulty end of end_round: the Payout state is returned whatever the table
Settled_step_wise(t, total_bets, winnings) == {Out(t, Payout(total_bets, winnings))}

\* The end of Table::end_round, the statistics being updated
Settled(t, total_bets, winnings) ==
    IF t.fast_forward THEN pay_out_winnings(t, winnings)
    ELSE {Out(t, Payout(total_bets, winnings))}

\* A faulty end_round: the statistics are left as they were
end_round_unrecorded(t, finished_turns, dealer_hand) ==
    Settled(t, [i \in 1..Len(finished_turns) |-> total_bet(finished_turns[i])],
            [i \in 1..Len(finished_turns) |->
                calculate_winnings(finished_turns[i], dealer_hand, t.rules.blackjack_payout)])

\* Table::end_round
end_round(t, finished_turns, dealer_hand) ==
    Settled([t EXCEPT !.statistics =
                StatisticsUpdate(@, finished_turns, dealer_hand, t.rules.blackjack_payout)],
            [i \in 1..Len(finished_turns) |-> total_bet(finished_turns[i])],
            [i \in 1..Len(finished_turns) |->
                calculate_winnings(finished_turns[i], dealer_hand, t.rules.blackjack_payout)])

RECURSIVE play_dealer_turn(_, _, _)
\* Table::play_dealer_turn_or_end_round
play_dealer_turn_or_end_round(t, finished_turns, dealer_hand) ==
    IF dealer_hand.status = "InPlay"
    THEN IF t.fast_forward THEN play_dealer_turn(t, finished_turns, dealer_hand)
         ELSE {Out(t, Ending("PlayDealerTurn", finished_turns, dealer_hand))}
    ELSE IF t.fast_forward THEN end_round(t, finished_turns, dealer_hand)
         ELSE {Out(t, Ending("RoundOver", finished_turns, dealer_hand))}

\* Table::play_dealer_turn
play_dealer_turn(t, finished_turns, dealer_hand) ==
    UNION {DebugAssert([t EXCEPT !.shoe = d.shoe], AddAssignAsserts(dealer_hand), "AddToFinishedHand",
                LAMBDA tt : play_dealer_turn_or_end_round(tt, finished_turns,
                                DealerAddAssign(dealer_hand, d.card)))
           : d \in draw_card(t.shoe)}

RECURSIVE SkipFinished(_, _)
\* while let Some(turn) = pending_turns.pop_if(|turn| turn.hand.status != InPlay)
SkipFinished(pending_turns, finished_turns) ==
    IF pending_turns # <<>> /\ pending_turns[Len(pending_turns)].hand.status # "InPlay"
    THEN SkipFinished(SubSeq(pending_turns, 1, Len(pending_turns) - 1),
                      Append(finished_turns, FinishedFromPending(pending_turns[Len(pending_turns)])))
    ELSE [pending_turns |-> pending_turns, finished_turns |-> finished_turns]

\* Whether some finished hand was stood on
AnyStood(finished_turns) ==
    \E i \in 1..Len(FlatHands(finished_turns)) : FlatHands(finished_turns)[i].status = "Stood"

\* The end of Table::continue_player_phase_or_go_to_dealer, no turn being
\* left to play: on to the dealer, whose hand is `dealer_hand`
GoToDealer(t, finished_turns, dealer_hand) ==
    IF t.fast_forward
    THEN play_dealer_turn_or_end_round(t, finished_turns, dealer_hand)
    ELSE {Out(t, Ending("RevealHoleCard", finished_turns, dealer_hand))}

\* A faulty continue_player_phase_or_go_to_dealer: the dealer is never made
\* to stand
StandUnlessStood_never(finished_turns, dealer_hand) == dealer_hand

\* The dealer stands on a hand in play when no finished hand was stood on
StandUnlessStood(finished_turns, dealer_hand) ==
    IF dealer_hand.status = "InPlay" /\ ~AnyStood(finished_turns)
    THEN [dealer_hand EXCEPT !.status = "Stood"]
    ELSE dealer_hand

\* The middle of Table::continue_player_phase_or_go_to_dealer, the current
\* turn being finished and `sk` what the loop over the pending turns left
NextTurnOrDealer(t, sk, dealer_hand) ==
    IF sk.pending_turns # <<>>
    THEN {Out(t, Playing("PlayPlayerTurn",
                         SubSeq(sk.pending_turns, 1, Len(sk.pending_turns) - 1),
                         ActiveFromPending(sk.pending_turns[Len(sk.pending_turns)]),
                         sk.finished_turns, dealer_hand))}
    ELSE GoToDealer(t, sk.finished_turns, StandUnlessStood(sk.finished_turns, dealer_hand))

\* Table::continue_player_phase_or_go_to_dealer after the call of
\* continue_playing, which returned `r`
AfterContinuePlaying(t, pending_turns, r, finished_turns, dealer_hand) ==
    IF r.ok
    THEN {Out(t, Playing("PlayPlayerTurn", pending_turns, r.turn, finished_turns, dealer_hand))}
    ELSE NextTurnOrDealer(t, SkipFinished(pending_turns, Append(finished_turns, r.finished)),
                          dealer_hand)

\* Table::continue_player_phase_or_go_to_dealer
continue_player_phase_or_go_to_dealer(t, pending_turns, current_turn, finished_turns, dealer_hand) ==
    AfterContinuePlaying(t, pending_turns, continue_playing(current_turn), finished_turns,
                         dealer_hand)

\* Table::hit
hit(t, pending_turns, current_turn, finished_turns, dealer_hand) ==
    UNION {DebugAssert([t EXCEPT !.shoe = d.shoe], AddAssignAsserts(current_hand(current_turn)),
                "AddToFinishedHand",
                LAMBDA tt : continue_player_phase_or_go_to_dealer(tt, pending_turns,
                                SetCurrentHand(current_turn,
                                    PlayerAddAssign(current_hand(current_turn), d.card)),
                                finished_turns, dealer_hand))
           : d \in draw_card(t.shoe)}

\* A faulty stand: the hand is left in play
stand_in_play(t, pending_turns, current_turn, finished_turns, dealer_hand) ==
    DebugAssert(t, StandAsserts(current_hand(current_turn)), "StandOnFinishedHand",
        LAMBDA tt : continue_player_phase_or_go_to_dealer(tt, pending_turns, current_turn,
                        finished_turns, dealer_hand))

\* Table::stand
stand(t, pending_turns, current_turn, finished_turns, dealer_hand) ==
    DebugAssert(t, StandAsserts(current_hand(current_turn)), "StandOnFinishedHand",
        LAMBDA tt : continue_player_phase_or_go_to_dealer(tt, pending_turns,
                        SetCurrentHand(current_turn, HandStand(current_hand(current_turn))),
                        finished_turns, dealer_hand))

\* Table::double
double(t, pending_turns, current_turn, finished_turns, dealer_hand) ==
    UNION {DebugAssert([t EXCEPT !.shoe = d.shoe], DoubleAsserts(current_hand(current_turn)),
                (IF size(current_hand(current_turn)) # 2 THEN "DoubleNotTwoCards"
                 ELSE "AddToFinishedHand"),
                LAMBDA tt : continue_player_phase_or_go_to_dealer(tt, pending_turns,
                                SetCurrentHand(current_turn,
                                    HandDouble(current_hand(current_turn), d.card)),
                                finished_turns, dealer_hand))
           : d \in draw_card(t.shoe)}

\* Table::surrender
surrender(t, pending_turns, current_turn, finished_turns, dealer_hand) ==
    DebugAssert(t, SurrenderAsserts(current_hand(current_turn)), "SurrenderNotTwoCards",
        LAMBDA tt : continue_player_phase_or_go_to_dealer(tt, pending_turns,
                        SetCurrentHand(current_turn, HandSurrender(current_hand(current_turn))),
                        finished_turns, dealer_hand))

\* A faulty deal_second_split_card: the new hand is set aside as it is and
\* the card goes to the current hand
deal_second_split_card_to_current(t, pending_turns, current_turn, new_hand, finished_turns, dealer_hand) ==
    UNION {DebugAssert([t EXCEPT !.shoe = d.shoe], AddAssignAsserts(new_hand), "AddToFinishedHand",
                LAMBDA tt : continue_player_phase_or_go_to_dealer(tt, pending_turns,
                                defer(SetCurrentHand(current_turn,
                                          PlayerAddAssign(current_hand(current_turn), d.card)),
                                      new_hand),
                                finished_turns, dealer_hand))
           : d \in draw_card(t.shoe)}

\* Table::deal_second_split_card
deal_second_split_card(t, pending_turns, current_turn, new_hand, finished_turns, dealer_hand) ==
    UNION {DebugAssert([t EXCEPT !.shoe = d.shoe], AddAssignAsserts(new_hand), "AddToFinishedHand",
                LAMBDA tt : continue_player_phase_or_go_to_dealer(tt, pending_turns,
                                defer(current_turn, PlayerAddAssign(new_hand, d.card)),
                                finished_turns, dealer_hand))
           : d \in draw_card(t.shoe)}

\* Table::deal_first_split_card
deal_first_split_card(t, pending_turns, current_turn, new_hand, finished_turns, dealer_hand) ==
    UNION {DebugAssert([t EXCEPT !.shoe = d.shoe], AddAssignAsserts(current_hand(current_turn)),
                "AddToFinishedHand",
                LAMBDA tt :
                    LET turn1 == SetCurrentHand(current_turn,
                                     PlayerAddAssign(current_hand(current_turn), d.card))
                    IN  IF tt.fast_forward
                        THEN deal_second_split_card(tt, pending_turns, turn1, new_hand,
                                                    finished_turns, dealer_hand)
                        ELSE {Out(tt, Splitting("DealSecondSplitCard", pending_turns, turn1,
                                                new_hand, finished_turns, dealer_hand))})
           : d \in draw_card(t.shoe)}

\* Table::split
split(t, pending_turns, current_turn, finished_turns, dealer_hand) ==
    DebugAssert(t, SplitAsserts(current_hand(current_turn)), "SplitNotAPair",
        LAMBDA tt :
            LET new_hand == HandSplitNew(current_hand(current_turn))
                turn1 == SetCurrentHand(current_turn, HandSplitKept(current_hand(current_turn)))
            IN  IF tt.fast_forward
                THEN deal_first_split_card(tt, pending_turns, turn1, new_hand,
                                           finished_turns, dealer_hand)
                ELSE {Out(tt, Splitting("DealFirstSplitCard", pending_turns, turn1, new_hand,
                                        finished_turns, dealer_hand))})

\* Table::play_player_turn
play_player_turn(t, pending_turns, current_turn, finished_turns, dealer_hand, action) ==
    LET same == Playing("PlayPlayerTurn", pending_turns, current_turn, finished_turns, dealer_hand)
        next(tag) == {Out(t, Playing(tag, pending_turns, current_turn, finished_turns, dealer_hand))}
        double_check == check_double_allowed(t, current_turn)
        split_check == check_split_allowed(t, current_turn)
        surrender_check == check_surrender_allowed(t, current_hand(current_turn))
    IN  CASE action = "Hit" ->
                IF t.fast_forward
                THEN hit(t, pending_turns, current_turn, finished_turns, dealer_hand)
                ELSE next("PlayerHit")
          [] action = "Stand" ->
                IF t.fast_forward
                THEN stand(t, pending_turns, current_turn, finished_turns, dealer_hand)
                ELSE next("PlayerStand")
          [] action = "Double" ->
                IF t.fast_forward
                THEN double(t, pending_turns, current_turn, finished_turns, dealer_hand)
                ELSE IF double_check # "Ok"
                THEN {ErrOut(t, same, "DoubleError::" \o double_check)}
                ELSE next("PlayerDouble")
          [] action = "Split" ->
                IF t.fast_forward
                THEN split(t, pending_turns, current_turn, finished_turns, dealer_hand)
                ELSE IF split_check # "Ok"
                THEN {ErrOut(t, same, "SplitError::" \o split_check)}
                ELSE next("PlayerSplit")
          [] action = "Surrender" ->
                IF t.fast_forward
                THEN surrender(t, pending_turns, current_turn, finished_turns, dealer_hand)
                ELSE IF surrender_check # "Ok"
                THEN {ErrOut(t, same, "SurrenderError::" \o surrender_check)}
                ELSE next("PlayerSurrender")

\* Table::start_player_phase_or_end_round
start_player_phase_or_end_round(t, player_turns, dealer_hand) ==
    IF player_turns # <<>>
    THEN continue_player_phase_or_go_to_dealer(t,
             SubSeq(player_turns, 1, Len(player_turns) - 1),
             ActiveFromPending(player_turns[Len(player_turns)]), <<>>, dealer_hand)
    ELSE IF t.fast_forward
    THEN end_round(t, <<>>, [dealer_hand EXCEPT !.status = "Stood"])
    ELSE {Out(t, Ending("RoundOver", <<>>, [dealer_hand EXCEPT !.status = "Stood"]))}

\* player_turns.into_iter().map(|turn| turn.into()).collect()
AllFinished(player_turns) ==
    [i \in 1..Len(player_turns) |-> FinishedFromPending(player_turns[i])]

\* A faulty check_dealer_hole_card: the hole card is not looked at
check_dealer_hole_card_unread(t, player_turns, dealer_hand) ==
    start_player_phase_or_end_round(t, player_turns, dealer_hand)

\* Table::check_dealer_hole_card
check_dealer_hole_card(t, player_turns, dealer_hand) ==
    IF dealer_hand.status = "Blackjack"
    THEN IF t.fast_forward THEN end_round(t, AllFinished(player_turns), dealer_hand)
         ELSE {Out(t, Ending("RoundOver", AllFinished(player_turns), dealer_hand))}
    ELSE start_player_phase_or_end_round(t, player_turns, dealer_hand)

\* A faulty bet_insurance: the insurance bet is recorded as it is asked
bet_insurance_uncapped(t, player_turns, dealer_hand, insurance_bets) ==
    LET turns1 == [i \in 1..Len(player_turns) |->
                      [player_turns[i] EXCEPT !.insurance_bet = insurance_bets[i]]]
    IN  IF t.fast_forward THEN check_dealer_hole_card(t, turns1, dealer_hand)
        ELSE {Out(t, Dealing("CheckDealerHoleCard", turns1, dealer_hand))}

\* Table::bet_insurance
bet_insurance(t, player_turns, dealer_hand, insurance_bets) ==
    LET turns1 == [i \in 1..Len(player_turns) |->
                      [player_turns[i] EXCEPT !.insurance_bet =
                          IF insurance_bets[i] > player_turns[i].hand.bet \div 2
                          THEN player_turns[i].hand.bet \div 2
                          ELSE insurance_bets[i]]]
    IN  IF t.fast_forward THEN check_dealer_hole_card(t, turns1, dealer_hand)
        ELSE {Out(t, Dealing("CheckDealerHoleCard", turns1, dealer_hand))}

\* A faulty choose_early_surrender: insurance is offered against any up-card
choose_early_surrender_any_up_card(t, player_turns, dealer_hand, surrender_choices) ==
    LET asserts == \A i \in 1..Len(player_turns) :
                       surrender_choices[i] => SurrenderAsserts(player_turns[i].hand)
        turns1 == [i \in 1..Len(player_turns) |->
                      IF surrender_choices[i]
                      THEN [player_turns[i] EXCEPT !.hand = HandSurrender(@)]
                      ELSE player_turns[i]]
    IN  DebugAssert(t, asserts, "SurrenderNotTwoCards",
            LAMBDA tt :
                IF \A i \in 1..Len(surrender_choices) : surrender_choices[i]
                THEN IF tt.fast_forward THEN end_round(tt, AllFinished(turns1), dealer_hand)
                     ELSE {Out(tt, Ending("RoundOver", AllFinished(turns1), dealer_hand))}
                ELSE IF tt.rules.insurance
                THEN {Out(tt, Dealing("OfferInsurance", turns1, dealer_hand))}
                ELSE IF tt.fast_forward THEN check_dealer_hole_card(tt, turns1, dealer_hand)
                ELSE {Out(tt, Dealing("CheckDealerHoleCard", turns1, dealer_hand))})

\* A faulty choose_early_surrender: the hole card is checked although every
\* hand was surrendered
choose_early_surrender_then_check(t, player_turns, dealer_hand, surrender_choices) ==
    LET turns1 == [i \in 1..Len(player_turns) |->
                      IF surrender_choices[i]
                      THEN [player_turns[i] EXCEPT !.hand = HandSurrender(@)]
                      ELSE player_turns[i]]
    IN  IF t.rules.insurance /\ showing(dealer_hand) = 11
        THEN {Out(t, Dealing("OfferInsurance", turns1, dealer_hand))}
        ELSE IF t.fast_forward THEN check_dealer_hole_card(t, turns1, dealer_hand)
        ELSE {Out(t, Dealing("CheckDealerHoleCard", turns1, dealer_hand))}

\* Table::choose_early_surrender
choose_early_surrender(t, player_turns, dealer_hand, surrender_choices) ==
    LET asserts == \A i \in 1..Len(player_turns) :
                       surrender_choices[i] => SurrenderAsserts(player_turns[i].hand)
        turns1 == [i \in 1..Len(player_turns) |->
                      IF surrender_choices[i]
                      THEN [player_turns[i] EXCEPT !.hand = HandSurrender(@)]
                      ELSE player_turns[i]]
    IN  DebugAssert(t, asserts, "SurrenderNotTwoCards",
            LAMBDA tt :
                IF \A i \in 1..Len(surrender_choices) : surrender_choices[i]
                THEN IF tt.fast_forward THEN end_round(tt, AllFinished(turns1), dealer_hand)
                     ELSE {Out(tt, Ending("RoundOver", AllFinished(turns1), dealer_hand))}
                ELSE IF tt.rules.insurance /\ showing(dealer_hand) = 11
                THEN {Out(tt, Dealing("OfferInsurance", turns1, dealer_hand))}
                ELSE IF tt.fast_forward THEN check_dealer_hole_card(tt, turns1, dealer_hand)
                ELSE {Out(tt, Dealing("CheckDealerHoleCard", turns1, dealer_hand))})

\* A faulty deal_hole_card: the blackjacks of the players are not looked at
AfterHoleCard_by_up_card(t, player_turns, dealer_hand) ==
    IF showing(dealer_hand) < 10
    THEN start_player_phase_or_end_round(t, player_turns, dealer_hand)
    ELSE IF t.rules.early_surrender
    THEN {Out(t, Dealing("OfferEarlySurrender", player_turns, dealer_hand))}
    ELSE IF t.rules.insurance /\ showing(dealer_hand) = 11
    THEN {Out(t, Dealing("OfferInsurance", player_turns, dealer_hand))}
    ELSE IF t.fast_forward THEN check_dealer_hole_card(t, player_turns, dealer_hand)
    ELSE {Out(t, Dealing("CheckDealerHoleCard", player_turns, dealer_hand))}

\* The rest of Table::deal_hole_card once the hole card is in the hand
AfterHoleCard(t, player_turns, dealer_hand) ==
    IF showing(dealer_hand) < 10
       \/ \A i \in 1..Len(player_turns) : player_turns[i].hand.status = "Blackjack"
    THEN start_player_phase_or_end_round(t, player_turns, dealer_hand)
    ELSE IF t.rules.early_surrender
    THEN {Out(t, Dealing("OfferEarlySurrender", player_turns, dealer_hand))}
    ELSE IF t.rules.insurance /\ showing(dealer_hand) = 11
    THEN {Out(t, Dealing("OfferInsurance", player_turns, dealer_hand))}
    ELSE IF t.fast_forward THEN check_dealer_hole_card(t, player_turns, dealer_hand)
    ELSE {Out(t, Dealing("CheckDealerHoleCard", player_turns, dealer_hand))}

\* Table::deal_hole_card
deal_hole_card(t, player_turns, dealer_hand) ==
    UNION {DebugAssert([t EXCEPT !.shoe = d.shoe], AddAssignAsserts(dealer_hand), "AddToFinishedHand",
                LAMBDA tt : AfterHoleCard(tt, player_turns, DealerAddAssign(dealer_hand, d.card)))
           : d \in draw_card(t.shoe)}

\* player_turns.iter_mut().find(|hand| hand.size() == 1): the positions found
OneCardTurns(player_turns) == {i \in 1..Len(player_turns) : size(player_turns[i].hand) = 1}

RECURSIVE deal_second_player_card(_, _, _)
\* Table::deal_second_player_card
deal_second_player_card(t, player_turns, dealer_hand) ==
    IF OneCardTurns(player_turns) # {}
    THEN LET i == CHOOSE i \in OneCardTurns(player_turns) :
                      \A j \in OneCardTurns(player_turns) : i <= j
         IN  UNION {DebugAssert([t EXCEPT !.shoe = d.shoe],
                        AddAssignAsserts(player_turns[i].hand), "AddToFinishedHand",
                        LAMBDA tt :
                            LET turns1 == [player_turns EXCEPT ![i].hand = PlayerAddAssign(@, d.card)]
                            IN  IF tt.fast_forward
                                THEN deal_second_player_card(tt, turns1, dealer_hand)
                                ELSE {Out(tt, Dealing("DealSecondPlayerCards", turns1, dealer_hand))})
                    : d \in draw_card(t.shoe)}
    ELSE IF t.fast_forward THEN deal_hole_card(t, player_turns, dealer_hand)
    ELSE {Out(t, Dealing("DealHoleCard", player_turns, dealer_hand))}

\* Table::deal_first_dealer_card
deal_first_dealer_card(t, player_turns) ==
    UNION {LET tt == [t EXCEPT !.shoe = d.shoe]
               dealer_hand == DealerHandNew(d.card, t.rules.dealer_soft_17)
           IN  IF tt.fast_forward THEN deal_second_player_card(tt, player_turns, dealer_hand)
               ELSE {Out(tt, Dealing("DealSecondPlayerCards", player_turns, dealer_hand))}
           : d \in draw_card(t.shoe)}

RECURSIVE deal_first_player_card(_, _, _)
\* The rest of Table::deal_first_player_card once a bet, if any, was served
AfterFirstPlayerCard(t, bets, player_turns) ==
    IF bets = <<>>
    THEN IF t.fast_forward THEN deal_first_dealer_card(t, player_turns)
         ELSE {Out(t, DealFirstDealerCard(player_turns))}
    ELSE IF t.fast_forward THEN deal_first_player_card(t, bets, player_turns)
         ELSE {Out(t, DealFirstPlayerCards(bets, player_turns))}

\* Table::deal_first_player_card
deal_first_player_card(t, bets, player_turns) ==
    IF bets # <<>>
    THEN UNION {AfterFirstPlayerCard([t EXCEPT !.shoe = d.shoe],
                    SubSeq(bets, 1, Len(bets) - 1),
                    Append(player_turns, PendingFromHand(PlayerHandNew(d.card, bets[Len(bets)]))))
                : d \in draw_card(t.shoe)}
    ELSE AfterFirstPlayerCard(t, bets, player_turns)

\* self.chips -= bet.  chips is a u32, kept here as its reading in two's
\* complement: a negative number stands for the value 2^32 above it, which is
\* what the subtraction wraps to in a build without overflow checks.
ChipsFits(chips, amount) == chips < 0 \/ amount <= chips

\* A faulty bet: the chips are taken before the bet is looked at
bet_charging_first(t, amount) ==
    LET charged == [t EXCEPT !.chips = t.chips - amount]
    IN  IF t.fast_forward
        THEN DebugAssert(t, ChipsFits(t.chips, amount), "SubtractWithOverflow",
                 LAMBDA tt : deal_first_player_card([tt EXCEPT !.chips = t.chips - amount],
                                                    <<amount>>, <<>>))
        ELSE IF t.rules.min_bet.some /\ amount < t.rules.min_bet.v
        THEN {ErrOut(charged, Betting, "BetError::TooLow")}
        ELSE IF t.rules.max_bet.some /\ amount > t.rules.max_bet.v
        THEN {ErrOut(charged, Betting, "BetError::TooHigh")}
        ELSE IF amount > t.chips
        THEN {ErrOut(charged, Betting, "BetError::CantAfford")}
        ELSE {Out(charged, DealFirstPlayerCards(<<amount>>, <<>>))}

\* Table::bet
bet(t, amount) ==
    IF t.fast_forward
    THEN DebugAssert(t, ChipsFits(t.chips, amount), "SubtractWithOverflow",
             LAMBDA tt : deal_first_player_card([tt EXCEPT !.chips = t.chips - amount],
                                                <<amount>>, <<>>))
    ELSE IF t.rules.min_bet.some /\ amount < t.rules.min_bet.v
    THEN {ErrOut(t, Betting, "BetError::TooLow")}
    ELSE IF t.rules.max_bet.some /\ amount > t.rules.max_bet.v
    THEN {ErrOut(t, Betting, "BetError::TooHigh")}
    ELSE IF amount > t.chips
    THEN {ErrOut(t, Betting, "BetError::CantAfford")}
    ELSE {Out([t EXCEPT !.chips = t.chips - amount], DealFirstPlayerCards(<<amount>>, <<>>))}

\* Table::progress, the arms of the states that read the input
progress_input(t, s, input) ==
    CASE s.tag = "Betting" ->
            IF input.kind = "Bet" THEN bet(t, input.bet)
            ELSE wrong_input(t, Betting)
      [] s.tag = "OfferEarlySurrender" ->
            IF input.kind = "Choice"
            THEN choose_early_surrender(t, s.player_turns, s.dealer_hand, <<input.choice>>)
            ELSE wrong_input(t, Dealing("OfferEarlySurrender", s.player_turns, s.dealer_hand))
      [] s.tag = "OfferInsurance" ->
            IF input.kind = "Bet"
            THEN bet_insurance(t, s.player_turns, s.dealer_hand, <<input.bet>>)
            ELSE wrong_input(t, Dealing("OfferInsurance", s.player_turns, s.dealer_hand))
      [] s.tag = "PlayPlayerTurn" ->
            IF input.kind = "Action"
            THEN play_player_turn(t, s.pending_turns, s.current_turn, s.finished_turns,
                                  s.dealer_hand, input.action)
            ELSE wrong_input(t, Playing("PlayPlayerTurn", s.pending_turns, s.current_turn,
                                        s.finished_turns, s.dealer_hand))

\* Table::progress, the arms of the states that read no input
progress_auto(t, s) ==
    CASE s.tag = "DealFirstPlayerCards" -> deal_first_player_card(t, s.bets, s.player_turns)
      [] s.tag = "DealFirstDealerCard" -> deal_first_dealer_card(t, s.player_turns)
      [] s.tag = "DealSecondPlayerCards" -> deal_second_player_card(t, s.player_turns, s.dealer_hand)
      [] s.tag = "DealHoleCard" -> deal_hole_card(t, s.player_turns, s.dealer_hand)
      [] s.tag = "CheckDealerHoleCard" -> check_dealer_hole_card(t, s.player_turns, s.dealer_hand)
      [] s.tag = "PlayerStand" ->
            stand(t, s.pending_turns, s.current_turn, s.finished_turns, s.dealer_hand)
      [] s.tag = "PlayerHit" ->
            hit(t, s.pending_turns, s.current_turn, s.finished_turns, s.dealer_hand)
      [] s.tag = "PlayerDouble" ->
            double(t, s.pending_turns, s.current_turn, s.finished_turns, s.dealer_hand)
      [] s.tag = "PlayerSplit" ->
            split(t, s.pending_turns, s.current_turn, s.finished_turns, s.dealer_hand)
      [] s.tag = "DealFirstSplitCard" ->
            deal_first_split_card(t, s.pending_turns, s.current_turn, s.new_hand,
                                  s.finished_turns, s.dealer_hand)
      [] s.tag = "DealSecondSplitCard" ->
            deal_second_split_card(t, s.pending_turns, s.current_turn, s.new_hand,
                                   s.finished_turns, s.dealer_hand)
      [] s.tag = "PlayerSurrender" ->
            surrender(t, s.pending_turns, s.current_turn, s.finished_turns, s.dealer_hand)
      [] s.tag = "RevealHoleCard" ->
            play_dealer_turn_or_end_round(t, s.finished_turns, s.dealer_hand)
      [] s.tag = "PlayDealerTurn" -> play_dealer_turn(t, s.finished_turns, s.dealer_hand)
      [] s.tag = "RoundOver" -> end_round(t, s.finished_turns, s.dealer_hand)
      [] s.tag = "Payout" -> pay_out_winnings(t, s.total_bets)
      [] s.tag = "Shuffle" -> shuffle_dispenser(t)

\* A faulty progress: a state that reads no input turns away a call that
\* brings one
progress_strict(t, s, input) ==
    IF s.tag \in InputTags THEN progress_input(t, s, input)
    ELSE IF input.kind # "None" THEN wrong_input(t, s)
    ELSE progress_auto(t, s)

\* A faulty progress: RoundOver waits for an input
progress_waiting(t, s, input) ==
    IF s.tag \in InputTags THEN progress_input(t, s, input)
    ELSE IF s.tag = "RoundOver" /\ input.kind = "None" THEN wrong_input(t, s)
    ELSE progress_auto(t, s)

\* Table::progress: the match on the state
progress(t, s, input) ==
    IF s.tag \in InputTags THEN progress_input(t, s, input) ELSE progress_auto(t, s)

(***************************************************************************)
(* The tables and inputs explored                                          *)
(***************************************************************************)
\* The amounts offered as Bet(amount), to Betting and to OfferInsurance
BetAmounts == {3, 5, 15}

\* A table that allows what a table can allow, with both limits on the bet
LooseRules ==
    [RulesDefault EXCEPT !.min_bet = Some(5), !.max_bet = Some(10), !.insurance = TRUE,
                         !.early_surrender = TRUE, !.late_surrender = TRUE,
                         !.max_splits = Some(1), !.double_after_split = TRUE,
                         !.split_aces = TRUE]

\* A table that forbids what a table can forbid, without a limit on the bet
TightRules ==
    [RulesDefault EXCEPT !.min_bet = None, !.max_bet = None, !.insurance = FALSE,
                         !.early_surrender = FALSE, !.late_surrender = FALSE,
                         !.max_splits = Some(1), !.double_after_split = FALSE,
                         !.split_aces = FALSE, !.blackjack_payout = "SixToFive",
                         !.dealer_soft_17 = "Hit"]

\* A table that allows no split at all
NoSplitRules == [TightRules EXCEPT !.max_splits = Some(0)]

\* A table that offers insurance and no early surrender
InsuranceRules == [NoSplitRules EXCEPT !.insurance = TRUE]

\* The rule sets explored
RuleConfigs == {LooseRules, TightRules, NoSplitRules, InsuranceRules}

\* The shuffle threshold explored, 1/26 of the shoe: two cards of each deck
Penetration == [num |-> 1, den |-> 26]

\* fast_forward as the caller set it, and the build.  A table stepped one
\* transition at a time is explored in the debug build only: up to the first
\* assertion that fails the two builds behave alike, and the debug build
\* reports it.
Modes ==
    {[fast_forward |-> FALSE, debug_assertions |-> TRUE],
     [fast_forward |-> TRUE, debug_assertions |-> TRUE],
     [fast_forward |-> TRUE, debug_assertions |-> FALSE]}

\* The tables explored.  A fast-forwarding table never reads max_splits, so
\* NoSplitRules would repeat what it does under TightRules; InsuranceRules
\* is followed step by step as well.
Tables ==
    {TableNew(StartChips, ShoeNew(Decks, Penetration.num, Penetration.den), c.r,
              c.m.fast_forward, c.m.debug_assertions)
        : c \in {c \in [r : RuleConfigs, m : Modes] :
                    c.m.fast_forward => c.r.max_splits # Some(0)}}

\* Every input a caller can pass
Inputs ==
    {NoInput} \cup {Bet(b) : b \in BetAmounts} \cup {Choice(c) : c \in BOOLEAN}
        \cup {Action(a) : a \in HandActions}

\* The inputs passed to the states that read none
AutoInputs == {NoInput, Bet(5), Choice(TRUE), Action("Hit")}

(***************************************************************************)
(* The state machine: a caller holding a Table and a GameState             *)
(***************************************************************************)
VARIABLES
    table,   \* the Table
    state,   \* the GameState the caller holds
    input,   \* the input of the last call of progress
    result,  \* how the last call of progress ended
    prior    \* whether a call was made, and the table and the state it was made with

vars == <<table, state, input, result, prior>>

Init ==
    /\ table \in Tables
    /\ state = Betting
    /\ input = NoInput
    /\ result = [kind |-> "None", err |-> "None"]
    /\ prior = [called |-> FALSE, table |-> table, state |-> state]

\* One call of progress with input `in`.  A panic leaves the caller without
\* a new state.  prior keeps the table and the state the call was made with,
\* so that what a call does is a property of the state it leads to.
Call(in) ==
    \E o \in progress(table, state, in) :
        /\ table' = [o.t EXCEPT !.shoe.trace = <<>>]
        /\ input' = in
        /\ prior' = [called |-> TRUE, table |-> table, state |-> state]
        /\ state' = IF o.panic THEN state ELSE o.s
        /\ result' = IF o.panic THEN [kind |-> "Panic", err |-> "None"]
                     ELSE IF o.err # "None" THEN [kind |-> "Err", err |-> o.err]
                     ELSE [kind |-> "Ok", err |-> "None"]

\* A caller that can call: a run is followed up to the first assertion that
\* fails, where the debug build has panicked and the release build holds a
\* hand outside its contract.
Running == result.kind # "Panic" /\ table.violation = "None"

\* The bets a caller may place: MaxRounds rounds are started on a table
BetsOpen(ins) == {in \in ins : in.kind = "Bet" => table.statistics.turns_played < MaxRounds}

ProgressBetting ==
    /\ Running
    /\ state.tag = "Betting"
    /\ \E in \in BetsOpen(Inputs) : Call(in)

ProgressDealFirstPlayerCards ==
    /\ Running
    /\ state.tag = "DealFirstPlayerCards"
    /\ \E in \in AutoInputs : Call(in)

ProgressDealFirstDealerCard ==
    /\ Running
    /\ state.tag = "DealFirstDealerCard"
    /\ \E in \in AutoInputs : Call(in)

ProgressDealSecondPlayerCards ==
    /\ Running
    /\ state.tag = "DealSecondPlayerCards"
    /\ \E in \in AutoInputs : Call(in)

ProgressDealHoleCard ==
    /\ Running
    /\ state.tag = "DealHoleCard"
    /\ \E in \in AutoInputs : Call(in)

ProgressOfferEarlySurrender ==
    /\ Running
    /\ state.tag = "OfferEarlySurrender"
    /\ \E in \in Inputs : Call(in)

ProgressOfferInsurance ==
    /\ Running
    /\ state.tag = "OfferInsurance"
    /\ \E in \in Inputs \cup {Bet(1)} : Call(in)

ProgressCheckDealerHoleCard ==
    /\ Running
    /\ state.tag = "CheckDealerHoleCard"
    /\ \E in \in AutoInputs : Call(in)

ProgressPlayPlayerTurn ==
    /\ Running
    /\ state.tag = "PlayPlayerTurn"
    /\ \E in \in Inputs : Call(in)

ProgressPlayerStand ==
    /\ Running
    /\ state.tag = "PlayerStand"
    /\ \E in \in AutoInputs : Call(in)

ProgressPlayerHit ==
    /\ Running
    /\ state.tag = "PlayerHit"
    /\ \E in \in AutoInputs : Call(in)

ProgressPlayerDouble ==
    /\ Running
    /\ state.tag = "PlayerDouble"
    /\ \E in \in AutoInputs : Call(in)

ProgressPlayerSplit ==
    /\ Running
    /\ state.tag = "PlayerSplit"
    /\ \E in \in AutoInputs : Call(in)

ProgressDealFirstSplitCard ==
    /\ Running
    /\ state.tag = "DealFirstSplitCard"
    /\ \E in \in AutoInputs : Call(in)

ProgressDealSecondSplitCard ==
    /\ Running
    /\ state.tag = "DealSecondSplitCard"
    /\ \E in \in AutoInputs : Call(in)

ProgressPlayerSurrender ==
    /\ Running
    /\ state.tag = "PlayerSurrender"
    /\ \E in \in AutoInputs : Call(in)

ProgressRevealHoleCard ==
    /\ Running
    /\ state.tag = "RevealHoleCard"
    /\ \E in \in AutoInputs : Call(in)

ProgressPlayDealerTurn ==
    /\ Running
    /\ state.tag = "PlayDealerTurn"
    /\ \E in \in AutoInputs : Call(in)

ProgressRoundOver ==
    /\ Running
    /\ state.tag = "RoundOver"
    /\ \E in \in AutoInputs : Call(in)

ProgressPayout ==
    /\ Running
    /\ state.tag = "Payout"
    /\ \E in \in AutoInputs : Call(in)

ProgressShuffle ==
    /\ Running
    /\ state.tag = "Shuffle"
    /\ \E in \in AutoInputs : Call(in)

Next ==
    \/ ProgressBetting
    \/ ProgressDealFirstPlayerCards
    \/ ProgressDealFirstDealerCard
    \/ ProgressDealSecondPlayerCards
    \/ ProgressDealHoleCard
    \/ ProgressOfferEarlySurrender
    \/ ProgressOfferInsurance
    \/ ProgressCheckDealerHoleCard
    \/ ProgressPlayPlayerTurn
    \/ ProgressPlayerStand
    \/ ProgressPlayerHit
    \/ ProgressPlayerDouble
    \/ ProgressPlayerSplit
    \/ ProgressDealFirstSplitCard
    \/ ProgressDealSecondSplitCard
    \/ ProgressPlayerSurrender
    \/ ProgressRevealHoleCard
    \/ ProgressPlayDealerTurn
    \/ ProgressRoundOver
    \/ ProgressPayout
    \/ ProgressShuffle

Spec == Init /\ [][Next]_vars

(***************************************************************************)
(* What a call of progress did, read off one step of the state machine     *)
(***************************************************************************)
\* The step is progress(PlayPlayerTurn, Some(Action(a)))
Asked(a) == prior.state.tag = "PlayPlayerTurn" /\ input = Action(a)

\* The step returned Err((state, e)) with the state it was given
RejectedWith(e) == result = [kind |-> "Err", err |-> e] /\ state = prior.state

\* The step returned Ok(state) with the fields of the state it was given
\* under the tag `tag`
AcceptedTo(tag) == result.kind = "Ok" /\ state = [prior.state EXCEPT !.tag = tag]

(***************************************************************************)
(* Wrong input                                                             *)
(***************************************************************************)
\* C1: in Betting, OfferEarlySurrender, OfferInsurance and PlayPlayerTurn, a
\* call of progress with no input, or with an input of another kind than the
\* state reads, returns Err(WrongInput) with a state equal to the one passed.
C1_WrongInputRejected ==
    prior.called =>
      ((prior.state.tag \in InputTags /\ input.kind # Accepts(prior.state.tag))
          => RejectedWith("WrongInput"))

\* OfferInsurance was called without an input and refused it
C1_Witness ==
    state.tag = "OfferInsurance" /\ input = NoInput /\ result.err = "WrongInput"

\* C2: whenever progress returns Err, the state returned is the state passed
\* and the table is as it was: shoe, cards_drawn, statistics and chips.
C2_ErrLeavesStateAndTable ==
    prior.called =>
      (result.kind = "Err" => (state = prior.state /\ table = prior.table))

\* An action was refused in the middle of a round, after cards were drawn
C2_Witness ==
    /\ result.err = "SurrenderError::NotTwoCards"
    /\ table.shoe.cards_drawn >= 5
    /\ state.tag = "PlayPlayerTurn"

HandContracts ==
    {"AddToFinishedHand", "StandOnFinishedHand", "DoubleNotTwoCards",
     "SurrenderNotTwoCards", "SplitNotAPair"}

FastForward(t) == [t EXCEPT !.fast_forward = TRUE]

RECURSIVE StepToInput(_)
\* The caller's loop on a step-wise table: progress(state, None) until the
\* state reads an input.  A call that was refused leaves the caller where it
\* was.
StepToInput(o) ==
    IF o.panic \/ o.err # "None" \/ o.s.tag \in InputTags THEN {o}
    ELSE UNION {StepToInput(n) : n \in progress(o.t, o.s, NoInput)}

\* What the caller has at an input boundary: the result, the state, the shoe
\* (with the cards it gave out since the input, in order) and the statistics
Seen(o) ==
    [panic |-> o.panic, err |-> o.err, s |-> o.s, shoe |-> o.t.shoe,
     statistics |-> o.t.statistics]

\* The boundaries a step-wise table can reach from state s on input in
Stepped(t, s, in) == UNION {StepToInput(o) : o \in progress(t, s, in)}

\* The step-wise table takes the input: it does not answer with a BetError,
\* DoubleError, SplitError or SurrenderError
Takes(t, s, in) == \A o \in progress(t, s, in) : o.err \in {"None", "WrongInput"}

\* From s on input in, with the same cards, both tables are at the same
\* boundary
Agree(t, s, in) ==
    {Seen(o) : o \in progress(FastForward(t), s, in)} = {Seen(o) : o \in Stepped(t, s, in)}

C6_OnlyLimitsRefuseABet ==
    prior.called =>
      ((prior.state.tag = "Betting" /\ input.kind = "Bet" /\ ~prior.table.fast_forward)
          => IF prior.table.rules.min_bet.some /\ input.bet < prior.table.rules.min_bet.v
             THEN RejectedWith("BetError::TooLow")
             ELSE IF prior.table.rules.max_bet.some /\ input.bet > prior.table.rules.max_bet.v
             THEN RejectedWith("BetError::TooHigh")
             ELSE /\ result.kind = "Ok"
                  /\ state = DealFirstPlayerCards(<<input.bet>>, <<>>))

(***************************************************************************)
(* Double, split, surrender                                                *)
(***************************************************************************)
\* What C7 says of Double on the current hand of state s at table t
DoubleRuling(t, s) ==
    IF size(current_hand(s.current_turn)) # 2 THEN "DoubleError::NotTwoCards"
    ELSE IF Len(s.current_turn.hands) = 1 \/ t.rules.double_after_split THEN "Ok"
    ELSE "DoubleError::DoubleAfterSplitNotAllowed"

PairOf(s) ==
    /\ Len(current_hand(s.current_turn).cards) = 2
    /\ current_hand(s.current_turn).cards[1].rank = current_hand(s.current_turn).cards[2].rank

\* What C8 says of Split on the current hand of state s at table t
SplitRuling(t, s) ==
    IF ~PairOf(s) THEN "SplitError::NotAPair"
    ELSE IF current_hand(s.current_turn).cards[1].rank = "Ace" /\ ~t.rules.split_aces
    THEN "SplitError::SplitAcesNotAllowed"
    ELSE IF t.rules.max_splits.some /\ ~(Len(s.current_turn.hands) <= t.rules.max_splits.v)
    THEN "SplitError::MaxSplitsReached"
    ELSE "Ok"

SplitsDone(turn) == Len(turn.hands) - 1

\* No turn of state s, current or finished, has more than n hands
HandsWithin(s, n) ==
    /\ Len(s.current_turn.hands) <= n
    /\ \A i \in 1..Len(s.finished_turns) : Len(s.finished_turns[i].hands) <= n

\* The step asks to split a pair that the rule on aces lets through
AskedToSplitPair ==
    /\ Asked("Split")
    /\ PairOf(prior.state)
    /\ current_hand(prior.state.current_turn).cards[1].rank = "Ace" => prior.table.rules.split_aces

SurrenderRuling(t, s) ==
    IF size(current_hand(s.current_turn)) # 2 THEN "SurrenderError::NotTwoCards"
    ELSE IF t.rules.late_surrender THEN "Ok"
    ELSE "SurrenderError::LateSurrenderNotAllowed"

HandsOf(s) ==
    [i \in 1..Len(s.player_turns) |-> s.player_turns[i].hand]
        \o FlatHands(s.finished_turns)
        \o s.current_turn.hands
        \o [i \in 1..Len(s.pending_turns) |-> s.pending_turns[i].hand]

\* The states between the hole card and the player phase
OfferTags == {"OfferEarlySurrender", "OfferInsurance", "CheckDealerHoleCard"}

\* The dealer cannot have a blackjack worth checking for: the up-card is
\* worth less than 10, or every player hand is a Blackjack
NoPeek(s) ==
    \/ worth(s.dealer_hand.cards[1].rank) < 10
    \/ \A i \in 1..Len(HandsOf(s)) : HandsOf(s)[i].status = "Blackjack"

\* The step deals the hole card
HoleCardDealt == Len(prior.state.dealer_hand.cards) < 2 /\ Len(state.dealer_hand.cards) = 2

\* C11: the call that deals the hole card returns PlayPlayerTurn, or
\* RevealHoleCard when no hand is in play, if the up-card is worth less than 10
\* or every player hand is a Blackjack, and one of OfferEarlySurrender,
\* OfferInsurance and CheckDealerHoleCard otherwise; these three are entered
\* from DealHoleCard or from one another only, so a round that skipped them
\* never visits them, and a state among the three has an up-card worth 10 or
\* 11 and a player hand that is no Blackjack.  A fast-forwarding table makes
\* the check within the call that deals the hole card: when the check is due
\* and the call returns none of the three, no offer is enabled and the dealer
\* has no Blackjack.
C11_OffersSkippedOrMade ==
    prior.called =>
      (/\ (~prior.table.fast_forward /\ prior.state.tag = "DealHoleCard")
            => IF NoPeek(prior.state) THEN state.tag \in {"PlayPlayerTurn", "RevealHoleCard"}
               ELSE state.tag \in OfferTags
       /\ (~prior.table.fast_forward /\ state.tag \in OfferTags)
            => prior.state.tag \in OfferTags \cup {"DealHoleCard"}
       /\ state.tag \in OfferTags => ~NoPeek(state)
       /\ (prior.table.fast_forward /\ HoleCardDealt /\ state.tag \notin OfferTags /\ ~NoPeek(state))
            => /\ ~prior.table.rules.early_surrender
               /\ ~(prior.table.rules.insurance /\ state.dealer_hand.cards[1].rank = "Ace")
               /\ state.dealer_hand.status # "Blackjack")

\* A step-wise table dealt a Blackjack to the player against an up-card of
\* ten or ace and went on to reveal the hole card
C11_Witness ==
    /\ ~table.fast_forward
    /\ state.tag = "RevealHoleCard"
    /\ worth(state.dealer_hand.cards[1].rank) >= 10
    /\ Len(HandsOf(state)) = 1
    /\ HandsOf(state)[1].status = "Blackjack"

\* The states a call can have been given when it returns a state it was not
\* given: the deal of the hole card, or Betting when the table fast-forwards
\* through the deal
DealtFrom == {"DealHoleCard"} \cup (IF table.fast_forward THEN {"Betting"} ELSE {})

\* DealtFrom, of the table and the state the call was made with
DealtFromBefore == {"DealHoleCard"} \cup (IF prior.table.fast_forward THEN {"Betting"} ELSE {})

\* C12: OfferEarlySurrender is entered only with early_surrender set, and only
\* from the deal; OfferInsurance only with insurance set and an ace as the
\* up-card, and only from the deal or from OfferEarlySurrender;
\* CheckDealerHoleCard only from the deal or from one of the two offers: in a
\* round the early surrender comes before the insurance, both come before the
\* check of the hole card, and no offer follows that check.
C12_OffersInOrder ==
    prior.called =>
      (/\ state.tag = "OfferEarlySurrender"
            => /\ prior.table.rules.early_surrender
               /\ prior.state.tag \in {"OfferEarlySurrender"} \cup DealtFromBefore
       /\ state.tag = "OfferInsurance"
            => /\ prior.table.rules.insurance
               /\ state.dealer_hand.cards[1].rank = "Ace"
               /\ prior.state.tag \in {"OfferInsurance", "OfferEarlySurrender"} \cup DealtFromBefore
       /\ state.tag = "CheckDealerHoleCard"
            => prior.state.tag \in {"OfferEarlySurrender", "OfferInsurance", "DealHoleCard"})

\* Early surrender was declined, insurance was offered next and bet on, and
\* the hole card is about to be checked
C12_Witness ==
    /\ state.tag = "CheckDealerHoleCard"
    /\ input.kind = "Bet"
    /\ table.rules.early_surrender
    /\ state.dealer_hand.cards[1].rank = "Ace"

(***************************************************************************)
(* The dealer's turn                                                       *)
(***************************************************************************)
\* No player hand of state s was stood on
NoneStood(s) == \A i \in 1..Len(HandsOf(s)) : HandsOf(s)[i].status # "Stood"

\* The only player hand of state s is a Blackjack
LoneBlackjack(s) == Len(HandsOf(s)) = 1 /\ HandsOf(s)[1].status = "Blackjack"

\* The call of this step drew n cards from the shoe
Drawn(n) ==
    \A o \in progress(prior.table, prior.state, input) :
        (~o.panic /\ o.s = state /\ [o.t EXCEPT !.shoe.trace = <<>>] = table)
            => Len(o.t.shoe.trace) = n

\* C13: a call that returns RevealHoleCard with no player hand stood on
\* returns the dealer's two cards with a hand in play made to stand; from
\* RevealHoleCard a dealer hand not in play goes to RoundOver as it is, past
\* PlayDealerTurn; and RoundOver pays a lone Blackjack bet + bet*3/2 under 3:2
\* when the dealer has none.  A fast-forwarding table does the same within one
\* call: the round of a dealt Blackjack is settled after the four cards of
\* the deal and pays bet + bet*3/2, a lone hand that busts ends the round with
\* the one card it drew, and a lone hand surrendered ends it with none.
C13_DealerStandsUnlessStood ==
    prior.called =>
      (/\ (state.tag = "RevealHoleCard" /\ NoneStood(state))
            => /\ state.dealer_hand.status \in {"Stood", "Blackjack"}
               /\ Len(state.dealer_hand.cards) = 2
               /\ Len(prior.state.dealer_hand.cards) = 2
                    => state.dealer_hand =
                          [prior.state.dealer_hand EXCEPT !.status = IF @ = "InPlay" THEN "Stood" ELSE @]
       /\ (prior.state.tag = "RevealHoleCard" /\ prior.state.dealer_hand.status # "InPlay")
            => /\ state.tag = "RoundOver"
               /\ state.dealer_hand = prior.state.dealer_hand
               /\ state.finished_turns = prior.state.finished_turns
       /\ (/\ prior.state.tag = "RoundOver"
           /\ LoneBlackjack(prior.state)
           /\ prior.state.dealer_hand.status # "Blackjack"
           /\ prior.table.rules.blackjack_payout = "ThreeToTwo")
            => state.winnings =
                  <<HandsOf(prior.state)[1].bet + (HandsOf(prior.state)[1].bet * 3) \div 2>>
       /\ (/\ prior.table.fast_forward
           /\ prior.state.tag = "Betting"
           /\ result.kind = "Ok"
           /\ table.statistics.blackjacks > prior.table.statistics.blackjacks
           /\ table.statistics.dealer_blackjacks = prior.table.statistics.dealer_blackjacks
           /\ prior.table.rules.blackjack_payout = "ThreeToTwo")
            => /\ Drawn(4)
               /\ table.statistics.total_won =
                      prior.table.statistics.total_won + input.bet + (input.bet * 3) \div 2
       /\ (/\ prior.table.fast_forward
           /\ (Asked("Hit") \/ Asked("Double"))
           /\ Len(prior.state.current_turn.hands) = 1
           /\ result.kind = "Ok"
           /\ table.statistics.busts > prior.table.statistics.busts)
            => (Drawn(1) /\ state.tag = "Betting")
       /\ (/\ prior.table.fast_forward
           /\ Asked("Surrender")
           /\ Len(prior.state.current_turn.hands) = 1
           /\ result.kind = "Ok")
            => (Drawn(0) /\ state.tag = "Betting"))

\* A lone Blackjack has reached RoundOver against a dealer made to stand on
\* two cards worth less than 17
C13_Witness ==
    /\ state.tag = "RoundOver"
    /\ LoneBlackjack(state)
    /\ state.dealer_hand.status = "Stood"
    /\ state.dealer_hand.value.total < 17
    /\ Len(state.dealer_hand.cards) = 2

\* The clubs of every rank: the ordinals the sampler is followed on where the
\* cards of a hand are what matters
OneSuit == {4 * k : k \in 0..(Len(Ranks) - 1)}

RECURSIVE ShoeAfterDraws(_, _)
\* The shoe after draw_card sampled the ordinals `os` in turn
ShoeAfterDraws(shoe, os) ==
    IF os = <<>> THEN shoe ELSE ShoeAfterDraws(ShoeAfterDraw(shoe, os[1]), Tail(os))

\* The bet of the rounds that start in the middle
MidBet == 5

\* A step-wise table in the middle of its first round, `staked` chips bet and
\* the ordinals `os` dealt, the sampler followed on `sampled`
TableMid(rules, os, sampled, staked) ==
    [TableNew(StartChips - staked,
              [ShoeAfterDraws([ShoeNew(Decks, Penetration.num, Penetration.den)
                                  EXCEPT !.sampled = sampled], os)
                  EXCEPT !.trace = <<>>],
              rules, FALSE, TRUE)
        EXCEPT !.chips = StartChips - staked]

\* The dealer's hand after the deal of up-card u and hole card h
DealerDealt(rules, u, h) ==
    DealerAddAssign(DealerHandNew(from_ordinal(u), rules.dealer_soft_17), from_ordinal(h))

\* The player's hand after the deal of p and q on a bet of b
PlayerDealtOn(p, q, b) == PlayerAddAssign(PlayerHandNew(from_ordinal(p), b), from_ordinal(q))

\* RevealHoleCard as the player phase leaves it when the player stood on the
\* ten and the eight of clubs (32 and 24) on a bet of MidBet, every rank being
\* followed: the dealer holds any two cards but a Blackjack, which
\* check_dealer_hole_card would have ended the round on
DealerInit ==
    /\ \E rules \in {LooseRules, TightRules} : \E u \in OneSuit : \E h \in OneSuit :
          /\ DealerDealt(rules, u, h).status # "Blackjack"
          /\ table = TableMid(rules, <<32, u, 24, h>>, OneSuit, MidBet)
          /\ state = Ending("RevealHoleCard",
                            <<[hands |-> <<HandStand(PlayerDealtOn(32, 24, MidBet))>>,
                               insurance_bet |-> 0]>>,
                            DealerDealt(rules, u, h))
    /\ input = NoInput
    /\ result = [kind |-> "Ok", err |-> "None"]
    /\ prior = [called |-> FALSE, table |-> table, state |-> state]

\* progress(state, None) in RevealHoleCard
TickRevealHoleCard ==
    /\ Running
    /\ state.tag = "RevealHoleCard"
    /\ Call(NoInput)

\* progress(state, None) in PlayDealerTurn
TickPlayDealerTurn ==
    /\ Running
    /\ state.tag = "PlayDealerTurn"
    /\ Call(NoInput)

\* The dealer's turn, one call of progress at a time
DealerNext ==
    \/ TickRevealHoleCard
    \/ TickPlayDealerTurn

DealerSpec == DealerInit /\ [][DealerNext]_vars

\* What C14 says of a dealer hand of value v under the soft-17 policy
DealerRuling(v, policy) ==
    IF v.total >= 22 THEN "Bust"
    ELSE IF v.total < 17 THEN "InPlay"
    ELSE IF v.total = 17 /\ v.soft /\ policy = "Hit" THEN "InPlay"
    ELSE "Stood"

\* C14: with a player hand stood on, a dealer hand in play at RevealHoleCard
\* goes to PlayDealerTurn as it is; each call in PlayDealerTurn draws one card
\* and adds it to the hand, which stays in PlayDealerTurn while it is in play
\* and goes to RoundOver otherwise: Stood on a total of 17 to 21, but for a
\* soft 17 under the policy Hit, which stays in play, and Bust on 22 or more.
\* The dealer of a RoundOver reached this way has a total of 17 or more.
C14_DealerDrawsTo17 ==
    prior.called =>
      (/\ (prior.state.tag = "RevealHoleCard" /\ ~NoneStood(prior.state)
             /\ prior.state.dealer_hand.status = "InPlay")
            => /\ state.tag = "PlayDealerTurn"
               /\ state.dealer_hand = prior.state.dealer_hand
               /\ Drawn(0)
       /\ prior.state.tag = "PlayDealerTurn"
            => /\ Drawn(1)
               /\ Len(state.dealer_hand.cards) = Len(prior.state.dealer_hand.cards) + 1
               /\ SubSeq(state.dealer_hand.cards, 1, Len(prior.state.dealer_hand.cards))
                      = prior.state.dealer_hand.cards
               /\ state.dealer_hand.status =
                      DealerRuling(state.dealer_hand.value, prior.table.rules.dealer_soft_17)
               /\ state.tag = IF state.dealer_hand.status = "InPlay" THEN "PlayDealerTurn"
                               ELSE "RoundOver"
               /\ state.tag = "RoundOver" => state.dealer_hand.value.total >= 17)

\* Under the policy Hit the dealer has drawn to a soft 17 and is to draw again
C14_Witness ==
    /\ state.tag = "PlayDealerTurn"
    /\ table.rules.dealer_soft_17 = "Hit"
    /\ state.dealer_hand.value = [soft |-> TRUE, total |-> 17]
    /\ Len(state.dealer_hand.cards) >= 3

(***************************************************************************)
(* The settlement of a round: PlayerHand::calculate_winnings on the hands  *)
(* a round can end with                                                    *)
(***************************************************************************)
\* The ace, the ten, the eight, the six and the five of clubs: the cards
\* dealt and drawn where the settlement is what matters
SettleOrdinals == {48, 32, 24, 16, 12}

\* The cards `os` can be dealt from a shoe of Decks decks
Dealable(os) ==
    \A o \in Ordinals : Cardinality({i \in 1..Len(os) : os[i] = o}) <= Decks

\* What the player's turn can make of the hand `hand`: a hand in play is
\* stood on, surrendered where the rules have a surrender and the hand two
\* cards, or hit once and then stood on unless the card ended it; a Blackjack
\* is left as it is.  `drawn` are the ordinals drawn for it.
Finishes(rules, hand) ==
    IF hand.status # "InPlay" THEN {[hand |-> hand, drawn |-> <<>>]}
    ELSE {[hand |-> HandStand(hand), drawn |-> <<>>]}
         \cup {[hand |-> HandSurrender(hand), drawn |-> <<>>] :
                   x \in {y \in {0} : size(hand) = 2
                                         /\ (rules.late_surrender \/ rules.early_surrender)}}
         \cup {[hand |-> StandIfInPlay(PlayerAddAssign(hand, from_ordinal(c))),
                 drawn |-> <<c>>] : c \in SettleOrdinals}

\* RevealHoleCard as continue_player_phase_or_go_to_dealer leaves it after
\* a turn of one hand: the dealer holds a Blackjack only against a Blackjack,
\* any other being found by check_dealer_hole_card before the player plays
RevealAfterOneHand(rules, b, p, q, u, h) ==
    \E f \in Finishes(rules, PlayerDealtOn(p, q, b)) :
        /\ Dealable(<<p, u, q, h>> \o f.drawn)
        /\ DealerDealt(rules, u, h).status = "Blackjack" => f.hand.status = "Blackjack"
        /\ table = TableMid(rules, <<p, u, q, h>> \o f.drawn, SettleOrdinals, b)
        /\ state = Ending("RevealHoleCard", <<[hands |-> <<f.hand>>, insurance_bet |-> 0]>>,
                          StandUnlessStood(<<[hands |-> <<f.hand>>, insurance_bet |-> 0]>>,
                                           DealerDealt(rules, u, h)))

\* RoundOver as check_dealer_hole_card leaves it on a dealer's Blackjack: the
\* player's hand is as it was dealt, or surrendered early
RoundOverOnPeek(rules, b, p, q, u, h) ==
    \E hand \in {PlayerDealtOn(p, q, b)}
                  \cup {HandSurrender(PlayerDealtOn(p, q, b)) : x \in {y \in {0} : rules.early_surrender}} :
        /\ Dealable(<<p, u, q, h>>)
        /\ DealerDealt(rules, u, h).status = "Blackjack"
        /\ PlayerDealtOn(p, q, b).status = "InPlay"
        /\ table = TableMid(rules, <<p, u, q, h>>, SettleOrdinals, b)
        /\ state = Ending("RoundOver", <<[hands |-> <<hand>>, insurance_bet |-> 0]>>, DealerDealt(rules, u, h))

\* RevealHoleCard after a turn of two hands, a pair of eights on a bet of
\* MidBet split: the first hand drew c and was finished, the second drew a
\* ten and was stood on
RevealAfterSplit(rules, c, u, h) ==
    \E f \in Finishes(rules, PlayerAddAssign(HandSplitKept(PlayerDealtOn(24, 24, MidBet)),
                                              from_ordinal(c))) :
        /\ Dealable(<<24, u, 24, h, c>> \o f.drawn \o <<32>>)
        /\ size(f.hand) = 2 => f.hand.status = "Stood"
        /\ DealerDealt(rules, u, h).status # "Blackjack"
        /\ table = TableMid(rules, <<24, u, 24, h, c>> \o f.drawn \o <<32>>, SettleOrdinals,
                            2 * MidBet)
        /\ state = Ending("RevealHoleCard",
                          <<[hands |-> <<f.hand,
                                         HandStand(PlayerAddAssign(
                                             HandSplitNew(PlayerDealtOn(24, 24, MidBet)),
                                             from_ordinal(32)))>>,
                             insurance_bet |-> 0]>>,
                          DealerDealt(rules, u, h))

\* The rounds settled, on bets of 5 and 7, both odd
SettleInit ==
    /\ \E rules \in {LooseRules, TightRules} : \E u \in SettleOrdinals : \E h \in SettleOrdinals :
          \/ \E b \in {5, 7} : \E p \in SettleOrdinals : \E q \in SettleOrdinals :
                \/ RevealAfterOneHand(rules, b, p, q, u, h)
                \/ RoundOverOnPeek(rules, b, p, q, u, h)
          \/ \E c \in SettleOrdinals : RevealAfterSplit(rules, c, u, h)
    /\ input = NoInput
    /\ result = [kind |-> "Ok", err |-> "None"]
    /\ prior = [called |-> FALSE, table |-> table, state |-> state]

\* progress(state, None) in RoundOver
TickRoundOver ==
    /\ Running
    /\ state.tag = "RoundOver"
    /\ Call(NoInput)

\* The end of a round, one call of progress at a time
SettleNext ==
    \/ TickRevealHoleCard
    \/ TickPlayDealerTurn
    \/ TickRoundOver

SettleSpec == SettleInit /\ [][SettleNext]_vars

\* The table of C15, in its order
TableWinnings(hand, dealer_hand, blackjack_payout) ==
    IF hand.status = "Surrendered" THEN hand.bet \div 2
    ELSE IF hand.status = "Blackjack" /\ dealer_hand.status = "Blackjack" THEN hand.bet
    ELSE IF hand.status = "Blackjack" /\ blackjack_payout = "ThreeToTwo"
         THEN hand.bet + (hand.bet * 3) \div 2
    ELSE IF hand.status = "Blackjack" THEN hand.bet + (hand.bet * 6) \div 5
    ELSE IF dealer_hand.status = "Blackjack" THEN 0
    ELSE IF hand.status = "Bust" THEN 0
    ELSE IF dealer_hand.status = "Bust" THEN 2 * hand.bet
    ELSE IF hand.value.total > dealer_hand.value.total THEN 2 * hand.bet
    ELSE IF hand.value.total = dealer_hand.value.total THEN hand.bet
    ELSE 0

\* The table over the hands of a turn
TableOver(turn, dealer_hand, blackjack_payout) ==
    SumSeq([j \in 1..Len(turn.hands) |->
               TableWinnings(turn.hands[j], dealer_hand, blackjack_payout)])

\* C15: the call of progress in RoundOver pays each turn, none of which is
\* insured here, the sum over its hands of what the table gives a hand:
\* bet/2 surrendered; bet on a Blackjack against a Blackjack; bet +
\* floor(bet*3/2) under 3:2 and bet + floor(bet*6/5) under 6:5 on a Blackjack;
\* 0 against the dealer's Blackjack; 0 bust, the dealer bust or not; 2*bet
\* when the dealer is bust; otherwise 2*bet on the higher total, bet on an
\* equal one and 0 on a lower one.
C15_WinningsFollowTable ==
    prior.called =>
      (prior.state.tag = "RoundOver"
       => /\ state.tag = "Payout"
          /\ Len(state.winnings) = Len(prior.state.finished_turns)
          /\ \A i \in 1..Len(prior.state.finished_turns) :
                state.winnings[i] = TableOver(prior.state.finished_turns[i], prior.state.dealer_hand,
                                               prior.table.rules.blackjack_payout))

\* A Blackjack on a bet of 7 was paid 7 + floor(21/2) under 3:2
C15_Witness ==
    /\ state.tag = "Payout"
    /\ table.rules.blackjack_payout = "ThreeToTwo"
    /\ state.total_bets = <<7>>
    /\ state.winnings = <<17>>

\* The insurance bets a state holds, one of each turn in it
InsuranceBets(s) ==
    [i \in 1..Len(s.player_turns) |-> s.player_turns[i].insurance_bet]
    \o [i \in 1..Len(s.finished_turns) |-> s.finished_turns[i].insurance_bet]
    \o (IF s.current_turn.hands # <<>> THEN <<s.current_turn.insurance_bet>> ELSE <<>>)
    \o [i \in 1..Len(s.pending_turns) |-> s.pending_turns[i].insurance_bet]

\* The states of the player phase
PlayTags ==
    {"PlayPlayerTurn", "PlayerStand", "PlayerHit", "PlayerDouble", "PlayerSplit",
     "DealFirstSplitCard", "DealSecondSplitCard", "PlayerSurrender"}

\* What the insurance of a turn pays against the dealer's hand
InsurancePaid(turn, dealer_hand) ==
    IF dealer_hand.status = "Blackjack" THEN 2 * turn.insurance_bet ELSE 0

\* C16: the call of progress in RoundOver pays each turn the sum of what its
\* hands are paid plus 2*insurance_bet if the dealer's status is Blackjack and
\* plus 0 otherwise; no call in the player phase, a split included, changes
\* the insurance bet of a turn or the number of insurance bets held, so that
\* the turn that is settled carries one insurance bet whatever its hands.
C16_InsuranceOncePerTurn ==
    prior.called =>
      (/\ prior.state.tag = "RoundOver"
          => /\ state.tag = "Payout"
             /\ \A i \in 1..Len(prior.state.finished_turns) :
                   state.winnings[i]
                       = TableOver(prior.state.finished_turns[i], prior.state.dealer_hand,
                                   prior.table.rules.blackjack_payout)
                         + InsurancePaid(prior.state.finished_turns[i], prior.state.dealer_hand)
       /\ (prior.state.tag \in PlayTags /\ InsuranceBets(state) # <<>>)
          => InsuranceBets(state) = InsuranceBets(prior.state))

\* A turn insured for 2 on a bet of 5 was split and settled: two hands were
\* played, 5 + 5 + 2 were bet
C16_Witness ==
    /\ state.tag = "Payout"
    /\ state.total_bets = <<12>>
    /\ table.statistics.hands_played = 2

\* The insurance bet of every turn of s is at most half the bet of each of
\* its hands
WithinHalf(s) ==
    /\ \A i \in 1..Len(s.player_turns) :
          s.player_turns[i].insurance_bet <= s.player_turns[i].hand.bet \div 2
    /\ \A i \in 1..Len(s.pending_turns) :
          s.pending_turns[i].insurance_bet <= s.pending_turns[i].hand.bet \div 2
    /\ \A j \in 1..Len(s.current_turn.hands) :
          s.current_turn.insurance_bet <= s.current_turn.hands[j].bet \div 2
    /\ \A i \in 1..Len(s.finished_turns) : \A j \in 1..Len(s.finished_turns[i].hands) :
          s.finished_turns[i].insurance_bet <= s.finished_turns[i].hands[j].bet \div 2

\* min(x, bet/2)
CappedAt(x, staked) == IF x < staked \div 2 THEN x ELSE staked \div 2

MaxCards == 4

\* PlayPlayerTurn, or RevealHoleCard on a Blackjack, as
\* start_player_phase_or_end_round leaves it on a step-wise table under
\* LooseRules: the player is dealt any two cards on a bet of MidBet, the
\* dealer an eight and a ten, after which no hole card is checked
HandInit ==
    /\ \E p \in OneSuit : \E q \in OneSuit :
          \E o \in start_player_phase_or_end_round(
                        TableMid(LooseRules, <<p, 24, q, 32>>, OneSuit, MidBet),
                        <<PendingFromHand(PlayerDealtOn(p, q, MidBet))>>,
                        DealerDealt(LooseRules, 24, 32)) :
              /\ table = o.t
              /\ state = o.s
    /\ input = NoInput
    /\ result = [kind |-> "Ok", err |-> "None"]
    /\ prior = [called |-> FALSE, table |-> table, state |-> state]

\* progress(state, Some(Action(Hit))) on a hand of fewer than MaxCards
\* cards, one less once the turn is split
AskHit ==
    /\ Running
    /\ state.tag = "PlayPlayerTurn"
    /\ size(current_hand(state.current_turn))
          < (IF Len(state.current_turn.hands) = 1 THEN MaxCards ELSE MaxCards - 1)
    /\ Call(Action("Hit"))

\* progress(state, Some(Action(Split)))
AskSplit ==
    /\ Running
    /\ state.tag = "PlayPlayerTurn"
    /\ Call(Action("Split"))

\* progress(state, None) in PlayerHit
TickPlayerHit ==
    /\ Running
    /\ state.tag = "PlayerHit"
    /\ Call(NoInput)

\* progress(state, None) in PlayerSplit
TickPlayerSplit ==
    /\ Running
    /\ state.tag = "PlayerSplit"
    /\ Call(NoInput)

\* progress(state, None) in DealFirstSplitCard
TickDealFirstSplitCard ==
    /\ Running
    /\ state.tag = "DealFirstSplitCard"
    /\ Call(NoInput)

\* progress(state, None) in DealSecondSplitCard
TickDealSecondSplitCard ==
    /\ Running
    /\ state.tag = "DealSecondSplitCard"
    /\ Call(NoInput)

\* The player's turn, one call of progress at a time
HandNext ==
    \/ AskHit
    \/ AskSplit
    \/ TickPlayerHit
    \/ TickPlayerSplit
    \/ TickDealFirstSplitCard
    \/ TickDealSecondSplitCard

HandSpec == HandInit /\ [][HandNext]_vars

\* The value and the cards of every hand a state holds, the dealer's and the
\* hand a split has set aside included
Valued(s) ==
    {[value |-> HandsOf(s)[i].value, cards |-> HandsOf(s)[i].cards] : i \in 1..Len(HandsOf(s))}
    \cup {[value |-> h.value, cards |-> h.cards] :
              h \in {g \in {s.new_hand} : g.status # "None"}}
    \cup {[value |-> d.value, cards |-> d.cards] :
              d \in {g \in {s.dealer_hand} : g.status # "None"}}

\* The number of aces among the cards
Aces(cards) == Cardinality({i \in 1..Len(cards) : cards[i].rank = "Ace"})

\* The sum of the cards, every ace counting 1
HardSum(cards) ==
    SumSeq([i \in 1..Len(cards) |-> IF cards[i].rank = "Ace" THEN 1 ELSE worth(cards[i].rank)])

\* C18: in every hand built card by card, a soft value has a total of 11 to
\* 21; the total is the sum of the cards with every ace counting 1, plus 10
\* exactly when the value is soft, so that one ace at most counts 11; and a
\* total above 21 is shown only by a value that is not soft, every ace
\* counting 1.
C18_SoftWithin21 ==
    \A h \in Valued(state) :
        /\ h.value.soft => (11 <= h.value.total /\ h.value.total <= 21 /\ Aces(h.cards) >= 1)
        /\ h.value.total = HardSum(h.cards) + (IF h.value.soft THEN 10 ELSE 0)
        /\ h.value.total > 21 => (~h.value.soft /\ h.value.total = HardSum(h.cards))

\* A hand that was soft took a card that made its ace count 1: it starts with
\* an ace, has three cards or more and a value that is not soft
C18_Witness ==
    /\ state.tag = "PlayPlayerTurn"
    /\ \E h \in Valued(state) :
          /\ Len(h.cards) >= 3
          /\ h.cards[1].rank = "Ace"
          /\ ~h.value.soft
          /\ h.value.total <= 21

\* The sums the cards can be counted as, each ace 1 or 11
Sums(cards) == {HardSum(cards) + 10 * k : k \in 0..Aces(cards)}

\* The largest of them not above 21, or the least when all are above
BestSum(cards) ==
    IF \E x \in Sums(cards) : x <= 21
    THEN CHOOSE x \in Sums(cards) : x <= 21 /\ \A y \in Sums(cards) : y <= 21 => y <= x
    ELSE HardSum(cards)

\* The reference valuation of the cards
Valuation(cards) == [soft |-> BestSum(cards) # HardSum(cards), total |-> BestSum(cards)]

RECURSIVE SumInOrder(_, _)
\* The cards added one at a time in the order `order` of their positions
SumInOrder(cards, order) ==
    IF Len(order) = 1 THEN ValueFrom(cards[order[1]])
    ELSE ValueAddAssign(SumInOrder(cards, SubSeq(order, 1, Len(order) - 1)),
                        ValueFrom(cards[order[Len(order)]]))

\* C19: the value of every hand is the reference valuation of its cards: the
\* total is the largest sum not above 21 with each ace counted 1 or 11, or
\* the sum with every ace counted 1 when there is none, and the value is soft
\* exactly when that sum counts an ace as 11; adding the same cards in any
\* other order gives the same value.
C19_ValueIsValuation ==
    \A h \in Valued(state) :
        /\ h.value = Valuation(h.cards)
        /\ \A order \in Permutations(1..Len(h.cards)) : SumInOrder(h.cards, order) = h.value

\* A hand of two aces and a nine is a soft 21: one ace counts 11, the other 1
C19_Witness ==
    \E h \in Valued(state) :
        /\ Aces(h.cards) = 2
        /\ Len(h.cards) = 3
        /\ h.value = [soft |-> TRUE, total |-> 21]

\* C20: a call of progress, in whatever state, leaves every player hand whose
\* status is Stood, Bust, Blackjack or Surrendered as it is, status, cards,
\* value and bet, for as long as the state holds the hands of the round, and
\* none of them is dropped before they all are; likewise the dealer's hand
\* once its status is one of these.
C20_TerminalHandsKept ==
    prior.called =>
      (/\ \A i \in 1..Len(HandsOf(prior.state)) :
             (HandsOf(prior.state)[i].status \in Terminal /\ i <= Len(HandsOf(state)))
                => HandsOf(state)[i] = HandsOf(prior.state)[i]
       /\ HandsOf(state) # <<>> => Len(HandsOf(state)) >= Len(HandsOf(prior.state))
       /\ (prior.state.dealer_hand.status \in Terminal /\ state.dealer_hand.status # "None")
             => state.dealer_hand = prior.state.dealer_hand)

\* The first hand of a split went bust, after which the second was hit
C20_Witness ==
    /\ state.tag = "PlayPlayerTurn"
    /\ Len(state.current_turn.hands) = 2
    /\ state.current_turn.current_hand_index = 1
    /\ state.current_turn.hands[1].status = "Bust"
    /\ Len(state.current_turn.hands[2].cards) = 3

(***************************************************************************)
(* The shoe by itself: Shoe::draw_card and Shoe::shuffle called on shoes   *)
(* small enough to be drawn empty                                          *)
(***************************************************************************)
\* The decks of the largest shoe drawn empty.
ShoeDecks == 2

\* The sampler is followed on the Window lowest ordinals that are left.
Window == 2

\* The ordinals left in the shoe
Left(shoe) == {o \in Ordinals : shoe.dist[o] > 0}

\* The Window lowest of them
Lowest(shoe) == {o \in Left(shoe) : Cardinality({q \in Left(shoe) : q < o}) < Window}

\* A table with a new shoe of 1 to ShoeDecks decks that is shuffled between
\* rounds at a penetration of 1, every ordinal being followed
ShoeInit ==
    /\ \E decks \in 1..ShoeDecks :
          table = TableNew(StartChips, [ShoeNew(decks, 1, 1) EXCEPT !.sampled = Ordinals],
                           RulesDefault, FALSE, TRUE)
    /\ state = Betting
    /\ input = NoInput
    /\ result = [kind |-> "Ok", err |-> "None"]
    /\ prior = [called |-> FALSE, table |-> table, state |-> state]

\* shoe.draw_card(), the sampler returning one of the lowest ordinals left;
\* trace is the ordinal this call sampled
DrawCard ==
    /\ \E d \in draw_card([table.shoe EXCEPT !.trace = <<>>]) :
          /\ d.shoe.trace[1] \in Lowest(table.shoe)
          /\ table' = [table EXCEPT !.shoe = d.shoe]
    /\ UNCHANGED <<state, input, result, prior>>

\* shoe.shuffle()
ShuffleShoe ==
    /\ table.shoe.cards_drawn > 0
    /\ table' = [table EXCEPT !.shoe = [ShoeShuffle(table.shoe) EXCEPT !.trace = <<>>]]
    /\ UNCHANGED <<state, input, result, prior>>

ShoeNext ==
    \/ DrawCard
    \/ ShuffleShoe

ShoeSpec == ShoeInit /\ [][ShoeNext]_vars

\* The cards of a full shoe
ShoeSize(shoe) == shoe.decks * CardsPerDeck

\* The step is a call of draw_card
Drew == Len(table'.shoe.trace) = 1

\* C21: in every state of a shoe of D decks some card is left, so that a draw
\* succeeds, and cards_drawn, the draws since the last shuffle, is below
\* D*52; a draw that is not the (D*52)-th since the last shuffle adds one to
\* cards_drawn and shuffles nothing, and the (D*52)-th leaves all 52 counts
\* at D and cards_drawn at 0.
C21_ReshuffleOnLastCard ==
    [][/\ Left(table'.shoe) # {}
       /\ table'.shoe.cards_drawn < ShoeSize(table'.shoe)
       /\ Drew => /\ draw_card(table.shoe) # {}
                   /\ IF table.shoe.cards_drawn + 1 = ShoeSize(table.shoe)
                      THEN /\ table'.shoe.cards_drawn = 0
                           /\ table'.shoe.dist = FullDist(table.shoe.decks)
                      ELSE /\ table'.shoe.cards_drawn = table.shoe.cards_drawn + 1
                           /\ table'.shoe.dist # FullDist(table.shoe.decks)]_vars

\* The last card of a shoe of two decks was drawn and the shoe is full again
C21_Witness ==
    /\ table.shoe.decks = 2
    /\ table.shoe.trace = <<51>>
    /\ table.shoe.cards_drawn = 0
    /\ table.shoe.dist = FullDist(2)

\* The sum of the counts of the ordinals of `os`
RECURSIVE CountSum(_, _)
CountSum(dist, os) ==
    IF os = {} THEN 0
    ELSE LET o == CHOOSE q \in os : TRUE IN dist[o] + CountSum(dist, os \ {o})

\* C22: a draw returns a card whose count is positive and, unless it is the
\* draw that empties the shoe, takes one from that count and leaves the
\* others; in every state each count is between 0 and D and cards_drawn
\* plus the sum of the counts is D*52, so that since the last shuffle no
\* card was drawn more than D times.
C22_DrawnWithoutReplacement ==
    [][/\ \A o \in Ordinals : 0 <= table'.shoe.dist[o] /\ table'.shoe.dist[o] <= table'.shoe.decks
       /\ table'.shoe.cards_drawn + CountSum(table'.shoe.dist, Ordinals) = ShoeSize(table'.shoe)
       /\ Drew => /\ table.shoe.dist[table'.shoe.trace[1]] > 0
                   /\ table'.shoe.cards_drawn # 0
                         => table'.shoe.dist
                              = [table.shoe.dist EXCEPT ![table'.shoe.trace[1]] = @ - 1]]_vars

\* The second copy of the two of clubs was drawn from a shoe of two decks,
\* which has none left and every other card
C22_Witness ==
    /\ table.shoe.decks = 2
    /\ table.shoe.trace = <<0>>
    /\ table.shoe.cards_drawn = 2
    /\ table.shoe.dist = [FullDist(2) EXCEPT ![0] = 0]

(***************************************************************************)
(* Round after round on a step-wise table with a shoe of one deck, until   *)
(* the chips are spent: the shoe is shuffled between rounds or drawn empty *)
(***************************************************************************)
\* The penetrations of the shoes: every round, half the shoe, the whole shoe
DeckPenetrations == {[num |-> 0, den |-> 1], [num |-> 1, den |-> 2], [num |-> 1, den |-> 1]}

\* A step-wise table of the default rules without a lowest bet
DeckInit ==
    /\ \E p \in DeckPenetrations :
          table = TableNew(StartChips, ShoeNew(1, p.num, p.den),
                           [RulesDefault EXCEPT !.min_bet = None], FALSE, TRUE)
    /\ state = Betting
    /\ input = NoInput
    /\ result = [kind |-> "None", err |-> "None"]
    /\ prior = [called |-> FALSE, table |-> table, state |-> state]

\* The lowest ordinal left
First(shoe) == {o \in Left(shoe) : \A q \in Left(shoe) : o <= q}

\* One call of progress, the sampler returning the lowest ordinal left in the
\* shoe
CallOnDeck(in) ==
    \E o \in progress([table EXCEPT !.shoe.sampled = First(table.shoe)], state, in) :
        /\ ~o.panic
        /\ table' = [o.t EXCEPT !.shoe.trace = <<>>]
        /\ input' = in
        /\ prior' = [called |-> TRUE, table |-> table, state |-> state]
        /\ state' = o.s
        /\ result' = IF o.err # "None" THEN [kind |-> "Err", err |-> o.err]
                     ELSE [kind |-> "Ok", err |-> "None"]

\* The caller bets one chip
DeckBet ==
    /\ state.tag = "Betting"
    /\ CallOnDeck(Bet(1))

\* The caller hits or stands
DeckPlay ==
    /\ state.tag = "PlayPlayerTurn"
    /\ \E a \in {"Hit", "Stand"} : CallOnDeck(Action(a))

\* The caller passes no input to a state that reads none
DeckTick ==
    /\ state.tag \notin {"Betting", "PlayPlayerTurn"}
    /\ CallOnDeck(NoInput)

DeckNext ==
    \/ DeckBet
    \/ DeckPlay
    \/ DeckTick

DeckSpec == DeckInit /\ [][DeckNext]_vars

\* The share of the shoe that was drawn is at least its penetration
Penetrated ==
    table.shoe.cards_drawn * table.shoe.max_penetration.den
        >= table.shoe.max_penetration.num * ShoeSize(table.shoe)

\* Penetrated, of the table and the state the call was made with
PenetratedBefore ==
    prior.table.shoe.cards_drawn * prior.table.shoe.max_penetration.den
        >= prior.table.shoe.max_penetration.num * ShoeSize(prior.table.shoe)

DrawingTags ==
    {"DealFirstPlayerCards", "DealFirstDealerCard", "DealSecondPlayerCards", "DealHoleCard",
     "PlayerHit", "PlayerDouble", "DealFirstSplitCard", "DealSecondSplitCard",
     "PlayDealerTurn"}

\* C24: on a table whose shoe has penetration 1 no call returns Shuffle; in
\* Payout cards_drawn is below D*52 and needs_shuffle() is false; and the
\* shoe is full again only after the call of a state that draws, which drew
\* the last card of the shoe.
C24_NoShuffleAtFullPenetration ==
    prior.called =>
      (prior.table.shoe.max_penetration = [num |-> 1, den |-> 1] =>
          /\ state.tag # "Shuffle"
          /\ state.tag = "Payout" =>
                /\ table.shoe.cards_drawn < ShoeSize(table.shoe)
                /\ ~needs_shuffle(table.shoe)
          /\ table.shoe.cards_drawn < prior.table.shoe.cards_drawn =>
                /\ prior.state.tag \in DrawingTags
                /\ prior.table.shoe.cards_drawn + 1 = ShoeSize(prior.table.shoe)
                /\ table.shoe.cards_drawn = 0
                /\ table.shoe.dist = FullDist(prior.table.shoe.decks))

\* A round of a table of penetration 1 is in Payout with fewer cards drawn
\* than a round deals: the shoe was drawn empty during the round
C24_Witness ==
    /\ state.tag = "Payout"
    /\ table.shoe.max_penetration = [num |-> 1, den |-> 1]
    /\ table.shoe.cards_drawn < 4

\* The position, from 1, of the current hand of the turn played in state s
Cur(s) == s.current_turn.current_hand_index + 1

\* The state holds a turn that is being played
InTurn(s) == s.current_turn.hands # <<>>

\* C25: while a turn is played the index of its current hand never goes
\* down, every hand before it is terminal and the hand the player is asked
\* about is in play; a call changes no hand of the turn but the current one,
\* which keeps its first card, and adds at most one hand, at the end; and the
\* turn that is finished lists the same hands in the same order, none of
\* them in play.
C25_HandsInCreationOrder ==
    prior.called =>
      (/\ InTurn(state) =>
            /\ \A i \in 1..(Cur(state) - 1) : state.current_turn.hands[i].status \in Terminal
            /\ state.tag = "PlayPlayerTurn" => current_hand(state.current_turn).status = "InPlay"
       /\ (InTurn(prior.state) /\ InTurn(state)) =>
            /\ Cur(state) >= Cur(prior.state)
            /\ Len(state.current_turn.hands) \in
                  {Len(prior.state.current_turn.hands), Len(prior.state.current_turn.hands) + 1}
            /\ \A i \in 1..Len(prior.state.current_turn.hands) :
                  IF i = Cur(prior.state)
                  THEN state.current_turn.hands[i].cards[1] = prior.state.current_turn.hands[i].cards[1]
                  ELSE state.current_turn.hands[i] = prior.state.current_turn.hands[i]
       /\ (InTurn(prior.state) /\ ~InTurn(state) /\ state.finished_turns # <<>>) =>
            LET finished == state.finished_turns[Len(state.finished_turns)].hands
            IN  /\ Len(finished) \in {Len(prior.state.current_turn.hands),
                                      Len(prior.state.current_turn.hands) + 1}
                /\ \A i \in 1..Len(finished) : finished[i].status \in Terminal
                /\ \A i \in 1..Len(prior.state.current_turn.hands) :
                      IF i = Cur(prior.state)
                      THEN finished[i].cards[1] = prior.state.current_turn.hands[i].cards[1]
                      ELSE finished[i] = prior.state.current_turn.hands[i])

\* A turn of two hands is finished, the first stood on as it was dealt after
\* the split and the second hit once
C25_Witness ==
    /\ state.tag = "RevealHoleCard"
    /\ Len(state.finished_turns) = 1
    /\ Len(state.finished_turns[1].hands) = 2
    /\ state.finished_turns[1].hands[1].status = "Stood"
    /\ Len(state.finished_turns[1].hands[1].cards) = 2
    /\ Len(state.finished_turns[1].hands[2].cards) = 3

\* The states of a split
SplitTags == {"PlayerSplit", "DealFirstSplitCard", "DealSecondSplitCard"}

\* The hands of the turn played in state s, or of the turn finished last
TurnHands(s) ==
    IF InTurn(s) THEN s.current_turn.hands
    ELSE IF s.finished_turns # <<>> THEN s.finished_turns[Len(s.finished_turns)].hands
    ELSE <<>>

\* The call made in `state` drew n cards
Drawing(n) == table.shoe.cards_drawn = prior.table.shoe.cards_drawn + n

\* The call was answered Ok by a table that holds no broken contract
Answered == result.kind = "Ok" /\ table.violation = "None"

\* C26: on a step-wise table the three states of a split are entered in
\* order and only so, PlayerSplit from PlayPlayerTurn by an accepted
\* Action(Split), and their calls read no input: the call of PlayerSplit
\* draws nothing and parts the pair, the call of DealFirstSplitCard draws one
\* card for the current hand, the call of DealSecondSplitCard draws one card
\* for the new hand and only then appends it to the turn, after which the
\* player is asked about the first hand in play if there is one.  A
\* fast-forwarding table does all of it within the call that takes the
\* Action(Split) and returns none of the three states.
C26_SplitDealsTwoCards ==
    prior.called =>
      (Answered =>
        /\ state.tag = "PlayerSplit" =>
              /\ prior.state.tag = "PlayPlayerTurn" /\ input = Action("Split")
              /\ Drawing(0)
              /\ state.current_turn = prior.state.current_turn
        /\ (prior.state.tag = "PlayPlayerTurn" /\ input = Action("Split") /\ ~prior.table.fast_forward)
              => state.tag = "PlayerSplit"
        /\ state.tag = "DealFirstSplitCard" => prior.state.tag = "PlayerSplit"
        /\ prior.state.tag = "PlayerSplit" =>
              /\ state.tag = "DealFirstSplitCard"
              /\ Drawing(0)
              /\ Len(state.current_turn.hands) = Len(prior.state.current_turn.hands)
              /\ current_hand(state.current_turn).cards
                    = <<current_hand(prior.state.current_turn).cards[1]>>
              /\ state.new_hand.cards = <<current_hand(prior.state.current_turn).cards[2]>>
        /\ state.tag = "DealSecondSplitCard" => prior.state.tag = "DealFirstSplitCard"
        /\ prior.state.tag = "DealFirstSplitCard" =>
              /\ state.tag = "DealSecondSplitCard"
              /\ Drawing(1)
              /\ Len(state.current_turn.hands) = Len(prior.state.current_turn.hands)
              /\ Len(current_hand(state.current_turn).cards) = 2
              /\ current_hand(state.current_turn).cards[1]
                    = current_hand(prior.state.current_turn).cards[1]
              /\ state.new_hand = prior.state.new_hand
        /\ prior.state.tag = "DealSecondSplitCard" =>
              /\ Drawing(1)
              /\ state.tag \notin SplitTags
              /\ Len(TurnHands(state)) = Len(prior.state.current_turn.hands) + 1
              /\ Len(TurnHands(state)[Len(TurnHands(state))].cards) = 2
              /\ TurnHands(state)[Len(TurnHands(state))].cards[1] = prior.state.new_hand.cards[1]
              /\ TurnHands(state)[Cur(prior.state)] = current_hand(prior.state.current_turn)
              /\ IF \E i \in 1..Len(TurnHands(state)) : TurnHands(state)[i].status = "InPlay"
                 THEN /\ state.tag = "PlayPlayerTurn"
                      /\ current_hand(state.current_turn).status = "InPlay"
                      /\ \A i \in 1..(Cur(state) - 1) :
                            state.current_turn.hands[i].status # "InPlay"
                 ELSE ~InTurn(state)
        /\ prior.table.fast_forward =>
              /\ state.tag \notin SplitTags
              /\ (prior.state.tag = "PlayPlayerTurn" /\ input = Action("Split")
                    /\ state.tag = "PlayPlayerTurn") =>
                    /\ Drawing(2)
                    /\ Len(state.current_turn.hands) = Len(prior.state.current_turn.hands) + 1
                    /\ Len(state.current_turn.hands[Cur(prior.state)].cards) = 2
                    /\ state.current_turn.hands[Cur(prior.state)].cards[1]
                          = current_hand(prior.state.current_turn).cards[1]
                    /\ Len(state.current_turn.hands[Len(state.current_turn.hands)].cards) = 2
                    /\ state.current_turn.hands[Len(state.current_turn.hands)].cards[1]
                          = current_hand(prior.state.current_turn).cards[2])

\* The call of DealSecondSplitCard returned PlayPlayerTurn on a step-wise
\* table: the turn has two hands of two cards, the first of which is played
C26_Witness ==
    /\ ~table.fast_forward
    /\ state.tag = "PlayPlayerTurn"
    /\ input = NoInput
    /\ Len(state.current_turn.hands) = 2
    /\ Cur(state) = 1
    /\ \A i \in 1..2 : Len(state.current_turn.hands[i].cards) = 2

(***************************************************************************)
(* A caller that keeps calling progress with input the table accepts       *)
(***************************************************************************)
\* A step-wise table of the default rules without a lowest bet and with two
\* splits to a turn, its shoe of ShoeDecks decks shuffled after every round
\* or never between rounds
FairInit ==
    /\ \E p \in {[num |-> 0, den |-> 1], [num |-> 1, den |-> 1]} :
          table = TableNew(StartChips, ShoeNew(ShoeDecks, p.num, p.den),
                           [RulesDefault EXCEPT !.min_bet = None, !.max_splits = Some(2)],
                           FALSE, TRUE)
    /\ state = Betting
    /\ input = NoInput
    /\ result = [kind |-> "None", err |-> "None"]
    /\ prior = [called |-> FALSE, table |-> table, state |-> state]

\* A call that is answered Ok
FairCall(in) == CallOnDeck(in) /\ result'.kind = "Ok"

\* The caller bets a chip on one of the first MaxRounds rounds
FairBet ==
    /\ state.tag = "Betting"
    /\ table.statistics.turns_played < MaxRounds
    /\ FairCall(Bet(1))

\* The caller passes an action that the table allows
FairAct ==
    /\ state.tag = "PlayPlayerTurn"
    /\ \E a \in HandActions : FairCall(Action(a))

\* The caller passes no input to a state that reads none
FairTick ==
    /\ state.tag \notin {"Betting", "PlayPlayerTurn"}
    /\ FairCall(NoInput)

FairNext ==
    \/ FairBet
    \/ FairAct
    \/ FairTick

\* The caller goes on to pass input that is accepted for as long as there is
\* one
FairSpec == FairInit /\ [][FairNext]_vars /\ WF_vars(FairNext)

\* C27: a caller of a step-wise table that keeps passing accepted input gets
\* every round back to Betting: no hand is hit for ever, the splits are
\* limited, the dealer's loop ends.
C27_RoundsTerminate == (state.tag # "Betting") ~> (state.tag = "Betting")

\* A round of three hands, one of them bust, is over and the table is back
\* in Betting
C27_Witness ==
    /\ state.tag = "Betting"
    /\ result.kind = "Ok"
    /\ table.statistics.turns_played = 1
    /\ table.statistics.hands_played = 3
    /\ table.statistics.busts >= 1

Counters == DOMAIN StatisticsNew

\* The rounds started on a table on which every bet is of one chip and
\* nothing else is staked
Started == StartChips - table.chips

\* Started, of the table and the state the call was made with
StartedBefore == StartChips - prior.table.chips

\* C29: on a step-wise table the statistics change in the call of RoundOver
\* and in no other, that call counts one turn, and so turns_played is the
\* number of rounds that got past RoundOver: all rounds started, less the one
\* that is being played; no call lowers a counter.
C29_StatisticsOncePerRound ==
    prior.called =>
      (/\ table.statistics # prior.table.statistics => prior.state.tag = "RoundOver"
       /\ prior.state.tag = "RoundOver" =>
            /\ table.statistics.turns_played = prior.table.statistics.turns_played + 1
            /\ state.tag = "Payout"
       /\ \A c \in Counters : table.statistics[c] >= prior.table.statistics[c]
       /\ table.statistics.turns_played
            = IF state.tag \in {"Betting", "Payout", "Shuffle"} THEN Started ELSE Started - 1)

\* The third round is counted, a win and a loss among the three
C29_Witness ==
    /\ state.tag = "Payout"
    /\ table.statistics.turns_played = 3
    /\ table.statistics.hands_played = 3
    /\ table.statistics.wins >= 1
    /\ table.statistics.losses >= 1

(***************************************************************************)
(* Scenario A: the player stands on the ten and the seven against the      *)
(* dealer's six and five                                                   *)
(***************************************************************************)
\* PlayPlayerTurn as start_player_phase_or_end_round leaves it on a step-wise
\* table after the deal of the ten (32) and the seven (20) of clubs to the
\* player and of the six (16) and the five (12) to the dealer, on a bet of 5
\* or 7, every rank being followed
ScenarioInit ==
    /\ \E rules \in {LooseRules, TightRules} : \E b \in {5, 7} :
          \E o \in start_player_phase_or_end_round(
                        TableMid(rules, <<32, 16, 20, 12>>, OneSuit, b),
                        <<PendingFromHand(PlayerDealtOn(32, 20, b))>>,
                        DealerDealt(rules, 16, 12)) :
              /\ table = o.t
              /\ state = o.s
    /\ input = NoInput
    /\ result = [kind |-> "Ok", err |-> "None"]
    /\ prior = [called |-> FALSE, table |-> table, state |-> state]

\* progress(state, Some(Action(Stand)))
ScenarioStand ==
    /\ Running
    /\ state.tag = "PlayPlayerTurn"
    /\ Call(Action("Stand"))

\* progress(state, None) in the states that follow, up to Payout
ScenarioTick ==
    /\ Running
    /\ state.tag \in {"PlayerStand", "RevealHoleCard", "PlayDealerTurn", "RoundOver"}
    /\ Call(NoInput)

ScenarioNext ==
    \/ ScenarioStand
    \/ ScenarioTick

ScenarioSpec == ScenarioInit /\ [][ScenarioNext]_vars

\* The call is the dealer's first draw, on the six and the five
FirstDraw == state.tag = "PlayDealerTurn" /\ Len(state.dealer_hand.cards) = 2

\* FirstDraw, of the table and the state the call was made with
FirstDrawBefore == prior.state.tag = "PlayDealerTurn" /\ Len(prior.state.dealer_hand.cards) = 2

\* The card the dealer drew in the call
DrawnCard == state.dealer_hand.cards[Len(state.dealer_hand.cards)]

\* The statement of C30 as it stands: a card of worth 11 or more drawn to
\* the dealer's six and five makes the hand Bust.
C30_Original ==
    prior.called =>
      ((FirstDrawBefore /\ worth(DrawnCard.rank) >= 11) => state.dealer_hand.status = "Bust")

\* C30 (amended): the player stands on a hard 17 and the dealer's first draw
\* to the six and the five busts on no card: a card of worth 11, an ace,
\* leaves a hard 12 in play, every other card a hard 13 to 21; the dealer is
\* Bust after two draws or more only, and the round in which the dealer
\* went bust pays the player's hand 2*bet.
C30_DealerOnElevenNeverBustsAtOnce ==
    prior.called =>
      (/\ state.tag = "RevealHoleCard" =>
            /\ state.finished_turns[1].hands[1].value = [soft |-> FALSE, total |-> 17]
            /\ state.finished_turns[1].hands[1].status = "Stood"
            /\ state.dealer_hand.value = [soft |-> FALSE, total |-> 11]
       /\ FirstDrawBefore =>
            /\ state.dealer_hand.status # "Bust"
            /\ state.dealer_hand.value
                  = [soft |-> FALSE,
                     total |-> 11 + (IF worth(DrawnCard.rank) = 11 THEN 1
                                     ELSE worth(DrawnCard.rank))]
       /\ state.dealer_hand.status = "Bust" => Len(state.dealer_hand.cards) >= 4
       /\ (prior.state.tag = "RoundOver" /\ prior.state.dealer_hand.status = "Bust") =>
            /\ state.tag = "Payout"
            /\ state.winnings = <<2 * prior.state.finished_turns[1].hands[1].bet>>)

\* The dealer went bust and the hand is paid twice its bet of 5
C30_Witness ==
    /\ state.tag = "Payout"
    /\ table.statistics.dealer_busts = 1
    /\ state.total_bets = <<5>>
    /\ state.winnings = <<10>>

(***************************************************************************)
(* The bets of a turn                                                      *)
(***************************************************************************)
\* The bet of the round: chips change by the bet that starts a round and by
\* nothing else, and one round is started
Staked == StartChips - table.chips

\* Staked, of the table and the state the call was made with
StakedBefore == StartChips - prior.table.chips

\* No round of the table is over
FirstRound == table.statistics.turns_played = 0

\* FirstRound, of the table and the state the call was made with
FirstRoundBefore == prior.table.statistics.turns_played = 0

\* The sum of the bets of the hands `hs`
RECURSIVE BetsOf(_)
BetsOf(hs) == IF hs = <<>> THEN 0 ELSE hs[1].bet + BetsOf(Tail(hs))

\* C31: the call of RoundOver reports for each turn the sum of the bets of
\* its hands plus its insurance bet; the call of PlayerSplit gives the new
\* hand the bet of the hand it came from, which keeps its own, and the call
\* of PlayerDouble doubles the bet of the current hand and no other; in the
\* first round of a table, whose bet is the chips that were spent, every
\* hand's bet is the bet of the round or twice it, and a turn of two hands,
\* none doubled and none insured, is reported at twice the bet of the round.
C31_TotalBetOfTurn ==
    prior.called =>
      (/\ FirstRound =>
             /\ \A i \in 1..Len(HandsOf(state)) :
                   HandsOf(state)[i].bet \in {Staked, 2 * Staked}
             /\ state.new_hand.status # "None" =>
                   state.new_hand.bet \in {Staked, 2 * Staked}
       /\ (prior.state.tag = "PlayerSplit" /\ result.kind = "Ok" /\ table.violation = "None") =>
             /\ state.new_hand.bet = current_hand(prior.state.current_turn).bet
             /\ \A i \in 1..Len(prior.state.current_turn.hands) :
                   state.current_turn.hands[i].bet = prior.state.current_turn.hands[i].bet
       /\ (prior.state.tag = "PlayerDouble" /\ result.kind = "Ok" /\ table.violation = "None") =>
             \A i \in 1..Len(prior.state.current_turn.hands) :
                 TurnHands(state)[i].bet
                    = IF i = Cur(prior.state) THEN 2 * prior.state.current_turn.hands[i].bet
                      ELSE prior.state.current_turn.hands[i].bet
       /\ prior.state.tag = "RoundOver" =>
             /\ state.tag = "Payout"
             /\ Len(state.total_bets) = Len(prior.state.finished_turns)
             /\ \A i \in 1..Len(prior.state.finished_turns) :
                   /\ state.total_bets[i]
                         = BetsOf(prior.state.finished_turns[i].hands)
                             + prior.state.finished_turns[i].insurance_bet
                   /\ (/\ FirstRoundBefore
                       /\ Len(prior.state.finished_turns[i].hands) = 2
                       /\ prior.state.finished_turns[i].insurance_bet = 0
                       /\ \A j \in 1..2 : prior.state.finished_turns[i].hands[j].bet = StakedBefore)
                        => state.total_bets[i] = 2 * StakedBefore)

\* A round of one split on a bet of 5, no hand doubled, is reported at 10
C31_Witness ==
    /\ state.tag = "Payout"
    /\ Staked = 5
    /\ state.total_bets = <<10>>
    /\ table.statistics.hands_played = 2
    /\ table.statistics.total_bet = 10

(***************************************************************************)
(* The hands of a round that is over                                       *)
(***************************************************************************)
\* C32: in RoundOver no hand of a finished turn has the status InPlay.
C32_NoHandInPlayAtRoundOver ==
    state.tag = "RoundOver" =>
        \A i \in 1..Len(FlatHands(state.finished_turns)) :
            FlatHands(state.finished_turns)[i].status # "InPlay"

\* C33: in RoundOver, where the winnings are computed, the dealer's hand is
\* Stood, Bust or a Blackjack.
C33_DealerFinishedAtRoundOver ==
    state.tag = "RoundOver" => state.dealer_hand.status \in {"Stood", "Bust", "Blackjack"}

(***************************************************************************)
(* The cards of the ordinals                                               *)
(***************************************************************************)
\* The 52 cards
Cards == {[rank |-> Ranks[i], suit |-> Suits[j]] : i \in 1..Len(Ranks), j \in 1..Len(Suits)}

\* The place of a name in the declaration of its enum, from 0
Place(names, name) == (CHOOSE i \in 1..Len(names) : names[i] = name) - 1

\* The index of a card in a deck sorted by rank and then suit
OrdinalOf(card) == Len(Suits) * Place(Ranks, card.rank) + Place(Suits, card.suit)

\* C34: from_ordinal takes the ordinals 0..51 one-to-one onto the 52 cards,
\* the card of an ordinal being the one at that index of a deck sorted by
\* rank and then suit, so that the ordinal of a card gives the card back;
\* the card a draw returns is the card of the ordinal that was sampled.
C34_FromOrdinalBijection ==
    [][/\ \A o \in Ordinals : /\ from_ordinal(o) \in Cards
                              /\ OrdinalOf(from_ordinal(o)) = o
       /\ Cardinality({from_ordinal(o) : o \in Ordinals}) = Cardinality(Ordinals)
       /\ \A c \in Cards : OrdinalOf(c) \in Ordinals /\ from_ordinal(OrdinalOf(c)) = c
       /\ Cardinality(Cards) = CardsPerDeck
       /\ Drew => \A d \in draw_card([table.shoe EXCEPT !.trace = <<>>]) :
                     d.shoe = table'.shoe
                        => /\ OrdinalOf(d.card) = table'.shoe.trace[1]
                           /\ d.card.rank = Ranks[(table'.shoe.trace[1] \div 4) + 1]
                           /\ d.card.suit = Suits[(table'.shoe.trace[1] % 4) + 1]]_vars

\* The ace of hearts, ordinal 50, was drawn as the last but one card of a deck
C34_Witness ==
    /\ table.shoe.decks = 1
    /\ table.shoe.cards_drawn = 51
    /\ table.shoe.trace = <<50>>
    /\ from_ordinal(table.shoe.trace[1]) = [rank |-> "Ace", suit |-> "Hearts"]
    /\ OrdinalOf([rank |-> "Ace", suit |-> "Hearts"]) = 50

(***************************************************************************)
(* The status of a hand that was given a card                              *)
(***************************************************************************)
\* The status a hand in play has once it holds the cards of `hand`
StatusOn(hand) ==
    IF hand.value.total >= 22 THEN "Bust"
    ELSE IF hand.value.total = 21 THEN (IF Len(hand.cards) = 2 THEN "Blackjack" ELSE "Stood")
    ELSE "InPlay"

\* `after` is `before` with one more card and the status of its new total
GivenCard(before, after) ==
    /\ before.status = "InPlay"
    /\ Len(after.cards) = Len(before.cards) + 1
    /\ SubSeq(after.cards, 1, Len(before.cards)) = before.cards
    /\ after.status = StatusOn(after)

\* What a Blackjack on a bet of b is paid by a dealer without one
BlackjackPaid(b, ratio) == IF ratio = "ThreeToTwo" THEN b + (3 * b) \div 2 ELSE b + (6 * b) \div 5

\* What the hands of `hs` that are a Blackjack are paid together
RECURSIVE BlackjacksPaid(_, _)
BlackjacksPaid(hs, ratio) ==
    IF hs = <<>> THEN 0
    ELSE (IF hs[1].status = "Blackjack" THEN BlackjackPaid(hs[1].bet, ratio) ELSE 0)
            + BlackjacksPaid(Tail(hs), ratio)

\* C35: a player hand is Bust exactly when its total is 22 or more, a
\* Blackjack exactly on 21 with two cards, never in play on 21 or more and
\* Stood on 21 with more than two cards; on a step-wise table the card of
\* PlayerHit and DealFirstSplitCard leaves the current hand, and the card of
\* DealSecondSplitCard the new hand, Bust, Blackjack, Stood or InPlay by its
\* total and size; and a turn that was split, whose hands are Blackjacks or
\* Bust, is paid the blackjack payout once for each Blackjack by a dealer
\* without one.
C35_StatusAfterCard ==
    prior.called =>
      (/\ \A i \in 1..Len(HandsOf(state)) :
             LET hand == HandsOf(state)[i] IN
             /\ hand.status = "Bust" <=> hand.value.total >= 22
             /\ hand.status = "Blackjack" => hand.value.total = 21 /\ Len(hand.cards) = 2
             /\ hand.status = "InPlay" => hand.value.total <= 20
             /\ (hand.value.total = 21 /\ Len(hand.cards) = 2) => hand.status = "Blackjack"
             /\ (hand.value.total = 21 /\ Len(hand.cards) > 2) => hand.status = "Stood"
       /\ (~prior.table.fast_forward /\ Answered /\ prior.state.tag \in {"PlayerHit", "DealFirstSplitCard"})
             => GivenCard(current_hand(prior.state.current_turn), TurnHands(state)[Cur(prior.state)])
       /\ (~prior.table.fast_forward /\ Answered /\ prior.state.tag = "DealSecondSplitCard")
             => GivenCard(prior.state.new_hand, TurnHands(state)[Len(TurnHands(state))])
       /\ prior.state.tag = "RoundOver" =>
             \A i \in 1..Len(prior.state.finished_turns) :
                 LET turn == prior.state.finished_turns[i] IN
                 (/\ Len(turn.hands) >= 2
                  /\ turn.insurance_bet = 0
                  /\ prior.state.dealer_hand.status # "Blackjack"
                  /\ \A j \in 1..Len(turn.hands) : turn.hands[j].status \in {"Blackjack", "Bust"})
                    => state.winnings[i]
                          = BlackjacksPaid(turn.hands, prior.table.rules.blackjack_payout))

\* Both hands of a split on a bet of 5 were a Blackjack, each paid 12 at
\* three to two
C35_Witness ==
    /\ state.tag = "Payout"
    /\ Staked = 5
    /\ table.rules.blackjack_payout = "ThreeToTwo"
    /\ state.total_bets = <<10>>
    /\ state.winnings = <<24>>

(***************************************************************************)
(* Doubling down                                                           *)
(***************************************************************************)
\* `after` is `before` doubled: one card more, twice the bet, and stood on
\* unless the card made it bust
Doubled(before, after) ==
    /\ Len(before.cards) = 2
    /\ Len(after.cards) = 3
    /\ SubSeq(after.cards, 1, 2) = before.cards
    /\ after.bet = 2 * before.bet
    /\ after.status = (IF after.value.total >= 22 THEN "Bust" ELSE "Stood")

\* The hands of the turn but the current one are in state' as in state
OthersKept ==
    /\ Len(TurnHands(state)) = Len(prior.state.current_turn.hands)
    /\ \A i \in 1..Len(prior.state.current_turn.hands) :
          i # Cur(prior.state) => TurnHands(state)[i] = prior.state.current_turn.hands[i]

HoldsOnly(hand, card) ==
    /\ hand.cards = <<card>>
    /\ hand.value = [soft |-> card.rank = "Ace", total |-> worth(card.rank)]
    /\ hand.status = "InPlay"

\* C37: on a step-wise table the call of PlayerSplit finds a pair in play
\* as the current hand, draws no card and leads to DealFirstSplitCard, where
\* the current hand holds only its first card, with the value of that card
\* (a soft 11 for an ace), its bet and the status InPlay, the new hand holds
\* only the second card, in play on the same bet, and every other hand of
\* the turn and the dealer's hand are as they were.
C37_SplitInTwo ==
    prior.called =>
      ((~prior.table.fast_forward /\ prior.state.tag = "PlayerSplit" /\ Answered) =>
          LET hand == current_hand(prior.state.current_turn)
              kept == current_hand(state.current_turn)
          IN  /\ state.tag = "DealFirstSplitCard"
              /\ Drawing(0)
              /\ Len(hand.cards) = 2
              /\ hand.cards[1].rank = hand.cards[2].rank
              /\ hand.status = "InPlay"
              /\ HoldsOnly(kept, hand.cards[1])
              /\ HoldsOnly(state.new_hand, hand.cards[2])
              /\ kept.bet = hand.bet
              /\ state.new_hand.bet = hand.bet
              /\ kept.cards \o state.new_hand.cards = hand.cards
              /\ Cur(state) = Cur(prior.state)
              /\ Len(state.current_turn.hands) = Len(prior.state.current_turn.hands)
              /\ \A i \in 1..Len(prior.state.current_turn.hands) :
                    i # Cur(prior.state) => state.current_turn.hands[i] = prior.state.current_turn.hands[i]
              /\ state.dealer_hand = prior.state.dealer_hand
              /\ state.finished_turns = prior.state.finished_turns
              /\ state.pending_turns = prior.state.pending_turns)

\* A pair of aces was split: each hand holds one ace, a soft 11
C37_Witness ==
    /\ state.tag = "DealFirstSplitCard"
    /\ ~table.fast_forward
    /\ Len(state.current_turn.hands) = 1
    /\ state.current_turn.hands[1].cards = <<from_ordinal(48)>>
    /\ state.current_turn.hands[1].value = [soft |-> TRUE, total |-> 11]
    /\ state.new_hand.cards = <<from_ordinal(48)>>
    /\ state.new_hand.value = [soft |-> TRUE, total |-> 11]
    /\ state.new_hand.bet = state.current_turn.hands[1].bet

(***************************************************************************)
(* The state the player is asked in                                        *)
(***************************************************************************)
\* C38: in PlayPlayerTurn the hand the player is asked about is in play,
\* every hand of the turn holds two cards or more, and the dealer holds two
\* cards that are not a Blackjack.
C38_PlayPlayerTurnShape ==
    state.tag = "PlayPlayerTurn" =>
        /\ InTurn(state)
        /\ Cur(state) \in 1..Len(state.current_turn.hands)
        /\ current_hand(state.current_turn).status = "InPlay"
        /\ \A i \in 1..Len(state.current_turn.hands) : Len(state.current_turn.hands[i].cards) >= 2
        /\ Len(state.dealer_hand.cards) = 2
        /\ state.dealer_hand.status # "Blackjack"

\* The player is asked about the second hand of a split, of two cards, the
\* first being finished, while the dealer shows a ten over a hole card that
\* was checked
C38_Witness ==
    /\ state.tag = "PlayPlayerTurn"
    /\ Len(state.current_turn.hands) = 2
    /\ Cur(state) = 2
    /\ state.current_turn.hands[1].status # "InPlay"
    /\ Len(state.current_turn.hands[2].cards) = 2
    /\ worth(state.dealer_hand.cards[1].rank) = 10
    /\ Len(state.dealer_hand.cards) = 2

(***************************************************************************)
(* The calls a fast-forwarding table needs                                 *)
(***************************************************************************)
\* The table offers neither early surrender nor insurance
NoOffers == ~table.rules.early_surrender /\ ~table.rules.insurance

\* NoOffers, of the table and the state the call was made with
NoOffersBefore == ~prior.table.rules.early_surrender /\ ~prior.table.rules.insurance

\* The call ended a round
RoundEnded == table.statistics.turns_played = prior.table.statistics.turns_played + 1

\* C39: a fast-forwarding table is in Betting, OfferEarlySurrender,
\* OfferInsurance or PlayPlayerTurn before and after every call; a call it
\* answers Ok was passed the input its state reads, a call answered Err
\* returns the state it was given, and a round ends in the call that
\* returns Betting and in no other; on a table without offers the Bet leads
\* to PlayPlayerTurn or through the whole round to Betting, and each Action
\* to PlayPlayerTurn or through the rest of the round to Betting.
C39_FastForwardReturnsInputStates ==
    prior.called =>
      (prior.table.fast_forward =>
          /\ prior.state.tag \in InputTags
          /\ state.tag \in InputTags
          /\ result.kind = "Ok" => input.kind = Accepts(prior.state.tag)
          /\ result.kind = "Err" => state = prior.state /\ table.statistics = prior.table.statistics
          /\ Answered => (RoundEnded <=> state.tag = "Betting")
          /\ ~RoundEnded => table.statistics = prior.table.statistics
          /\ (NoOffersBefore /\ Answered) =>
                /\ prior.state.tag \in {"Betting", "PlayPlayerTurn"}
                /\ state.tag \in {"Betting", "PlayPlayerTurn"}
                /\ input.kind = (IF prior.state.tag = "Betting" THEN "Bet" ELSE "Action"))

\* On a fast-forwarding table without offers a round of one hand was ended
\* by the player's Stand: the call returned Betting
C39_Witness ==
    /\ table.fast_forward
    /\ NoOffers
    /\ state.tag = "Betting"
    /\ input = Action("Stand")
    /\ result.kind = "Ok"
    /\ table.statistics.turns_played = 1
    /\ table.statistics.hands_played = 1

(***************************************************************************)
(* The early surrender                                                     *)
(***************************************************************************)
\* The call answers the early surrender offer with Choice(c) and is accepted
Offered(c) == prior.state.tag = "OfferEarlySurrender" /\ input = Choice(c) /\ Answered

\* The shoe is in state' as in state
ShoeKept == table.shoe.dist = prior.table.shoe.dist /\ Drawing(0)

\* C40: on a step-wise table Choice(true) in OfferEarlySurrender leads to
\* RoundOver with the hand Surrendered and otherwise as it was, the dealer's
\* hand as dealt and no card drawn; the call of RoundOver on a surrendered
\* hand without insurance leads to Payout with half the bet as winnings,
\* whatever the dealer holds, and the call of Payout to Shuffle or Betting, no card being drawn;
\* Choice(false) leaves the hands and the shoe as they are and leads to
\* OfferInsurance when insurance is offered on an ace, to
\* CheckDealerHoleCard otherwise.  A fast-forwarding table ends the round in
\* the call of Choice(true), half the bet won, and draws nothing.
C40_EarlySurrenderEndsRound ==
    prior.called =>
      (/\ (~prior.table.fast_forward /\ Offered(TRUE)) =>
             /\ state.tag = "RoundOver"
             /\ ShoeKept
             /\ state.dealer_hand = prior.state.dealer_hand
             /\ state.finished_turns
                   = <<[hands |-> <<[prior.state.player_turns[1].hand EXCEPT !.status = "Surrendered"]>>,
                        insurance_bet |-> 0]>>
       /\ (~prior.table.fast_forward /\ prior.state.tag = "RoundOver" /\ Answered
             /\ prior.state.finished_turns[1].insurance_bet = 0
             /\ Len(HandsOf(prior.state)) = 1
             /\ HandsOf(prior.state)[1].status = "Surrendered") =>
             /\ state.tag = "Payout"
             /\ ShoeKept
             /\ state.winnings = <<prior.state.finished_turns[1].hands[1].bet \div 2>>
             /\ state.total_bets = <<prior.state.finished_turns[1].hands[1].bet>>
       /\ (~prior.table.fast_forward /\ prior.state.tag = "Payout" /\ Answered) =>
             /\ state.tag \in {"Shuffle", "Betting"}
             /\ ShoeKept
       /\ (~prior.table.fast_forward /\ Offered(FALSE)) =>
             /\ state.tag = (IF prior.table.rules.insurance /\ showing(prior.state.dealer_hand) = 11
                              THEN "OfferInsurance" ELSE "CheckDealerHoleCard")
             /\ ShoeKept
             /\ state.player_turns = prior.state.player_turns
             /\ state.dealer_hand = prior.state.dealer_hand
       /\ (prior.table.fast_forward /\ Offered(TRUE)) =>
             /\ state.tag = "Betting"
             /\ table.shoe.cards_drawn \in {0, prior.table.shoe.cards_drawn}
             /\ table.statistics.turns_played = prior.table.statistics.turns_played + 1
             /\ table.statistics.total_won
                   = prior.table.statistics.total_won + prior.state.player_turns[1].hand.bet \div 2
       /\ (prior.table.fast_forward /\ Offered(FALSE) /\ state.tag = "OfferInsurance") =>
             /\ ShoeKept
             /\ state.player_turns = prior.state.player_turns
             /\ state.dealer_hand = prior.state.dealer_hand)

\* A hand on a bet of 5 was surrendered to a dealer who held a Blackjack and
\* was paid 2
C40_Witness ==
    /\ state.tag = "Payout"
    /\ table.rules.early_surrender
    /\ state.total_bets = <<5>>
    /\ state.winnings = <<2>>
    /\ table.statistics.dealer_blackjacks = 1
    /\ table.statistics.total_won = 2

====
